------------------------- MODULE SlotWorkflowProofs -------------------------
(***************************************************************************)
(* Type correctness and the safety of the slot workflow, for every set of  *)
(* areas, slots, tattoos, handles and appearances.                         *)
(***************************************************************************)
EXTENDS SlotWorkflow, FiniteSetTheorems, TLAPS

USE DEF OptionalOf

-----------------------------------------------------------------------------
(* Pages                                                                   *)

\* The number of pages of a snapshot (slotPageCount) is a natural number.
LEMMA PageCountNat ==
  ASSUME NEW a \in Area, NEW s \in OptionalOf(Snapshot(a))
  PROVE  PageCount(s) \in Nat
<1>1. CASE s = None
  BY <1>1 DEF PageCount
<1>2. CASE s # None
  <2>1. DOMAIN s = 0 .. SlotCount[a] - 1
    BY <1>2 DEF Snapshot
  <2>2. SlotCount[a] - 1 \in Int
    BY SlotCountAssumption
  <2>3. IsFiniteSet(0 .. SlotCount[a] - 1)
    BY <2>2, FS_Interval
  <2>4. Cardinality(DOMAIN s) \in Nat
    BY <2>1, <2>3, FS_CardinalityType
  <2>5. (Cardinality(DOMAIN s) + PageSize - 1) \div PageSize \in Nat
    BY <2>4, PageSizeAssumption
  <2> QED
    BY <1>2, <2>5 DEF PageCount
<1> QED
  BY <1>1, <1>2

\* Clamping (clampSelectedPage) yields a page that clamping keeps.
LEMMA ClampedPageType ==
  ASSUME NEW a \in Area, NEW s \in OptionalOf(Snapshot(a)), NEW page \in Nat
  PROVE  /\ ClampedPage(page, s) \in Nat
         /\ ClampedPage(ClampedPage(page, s), s) = ClampedPage(page, s)
<1>1. PageCount(s) \in Nat
  BY PageCountNat
<1> QED
  BY <1>1 DEF ClampedPage

-----------------------------------------------------------------------------
(* Values                                                                  *)

\* setPreviewAppearance and setEditedAppearance keep to the valid range.
LEMMA ClampType ==
  ASSUME NEW c \in Int
  PROVE  Clamp(c) \in Color
BY ColorAssumption DEF Clamp, Color

\* A slot of a snapshot of an area is a slot.
LEMMA SnapshotSlot ==
  ASSUME NEW a \in Area, NEW s \in Snapshot(a), NEW i \in DOMAIN s
  PROVE  i \in Slot /\ s[i] \in SlotState
BY DEF Snapshot, Slot

\* A ticket of some kind is a ticket, and not None.
LEMMA TicketIsTicket ==
  ASSUME NEW k \in Kind, NEW t \in Ticket(k)
  PROVE  t \in AnyTicket /\ t # None
<1>1. t.request \in AnyRequest
  BY DEF Ticket, AnyRequest
<1>2. t = [gen |-> t.gen, request |-> t.request] /\ t.gen \in Nat
  BY DEF Ticket
<1>3. t \in AnyTicket
  BY <1>1, <1>2 DEF AnyTicket
<1> QED
  BY <1>3, NoneMemberAssumption

\* A request of some kind makes a ticket of that kind.
LEMMA NewTicket ==
  ASSUME NEW k \in Kind, NEW r \in Request(k), NEW n \in Nat
  PROVE  [gen |-> n, request |-> r] \in Ticket(k)
BY DEF Ticket

\* What an answer holds: an error, or the slots a query asked for.
LEMMA ResultShape ==
  ASSUME NEW k \in Kind, NEW r \in Request(k), NEW result \in Results(k, r)
  PROVE  /\ result.error \in OptionalOf(Error)
         /\ k = "query" /\ result.error = None => result.slots \in Snapshot(r.area)
         /\ result \in AnyResult
         /\ result # None
<1>1. Failures(k) \subseteq Error
  BY DEF Failures, Error
<1>2. k = "query" => r.area \in Area
  BY DEF Request
<1>3. CASE \E e \in Failures(k) : result = [error |-> e]
  <2>1. PICK e \in Failures(k) : result = [error |-> e]
    BY <1>3
  <2>2. e # None
    BY <1>1, NoneAssumption
  <2>3. result \in AnyResult
    BY <1>1, <2>1 DEF AnyResult
  <2> QED
    BY <1>1, <2>1, <2>2, <2>3, NoneRecordAssumption
<1>4. CASE k = "query" /\ \E s \in Snapshot(r.area) : result = [error |-> None, slots |-> s]
  <2>1. PICK s \in Snapshot(r.area) : result = [error |-> None, slots |-> s]
    BY <1>4
  <2>2. s \in AnySnapshot
    BY <1>2, <1>4 DEF AnySnapshot
  <2>3. result \in AnyResult
    BY <2>1, <2>2 DEF AnyResult
  <2> QED
    BY <2>1, <2>3, NoneRecordAssumption
<1>5. CASE k # "query" /\ result = [error |-> None]
  <2>1. result \in AnyResult
    BY <1>5 DEF AnyResult
  <2> QED
    BY <1>5, <2>1, NoneRecordAssumption
<1> QED
  BY <1>3, <1>4, <1>5 DEF Results

\* A refused ticket is answered as its kind may be answered.
LEMMA RefusalIsResult ==
  ASSUME NEW k \in Kind, NEW r \in Request(k)
  PROVE  [error |-> ExceptionError(k, r)] \in Results(k, r)
BY DEF ExceptionError, Results, Failures, Error

\* What the workflow asks of the backend is a request of its kind.
LEMMA RequestsTyped ==
  /\ \A a \in Area : [area |-> a] \in Request("query")
  /\ \A a \in Area, s \in Slot, t \in Tattoo, c \in Color :
       [area |-> a, slot |-> s, tattoo |-> t, color |-> c] \in Request("apply")
  /\ \A a \in Area, s \in Slot, m \in Mode :
       [area |-> a, slot |-> s, mode |-> m] \in Request("remove")
  /\ \A h \in Handle, c \in RawColor \cup Color, m \in Mode :
       [handle |-> h, color |-> c, mode |-> m] \in Request("appearance")
BY DEF Request

-----------------------------------------------------------------------------
(* Type correctness                                                        *)

\* The part of TypeOK that is about the members of the workflow model.
ModelType ==
  /\ started \in BOOLEAN
  /\ screen \in Screen
  /\ selectedArea \in Area
  /\ slots \in [Area -> OptionalOf(AnySnapshot)]
  /\ \A a \in Area : slots[a] \in OptionalOf(Snapshot(a))
  /\ pageIndex \in [Area -> Nat]
  /\ targetSlot \in OptionalOf(Slot)
  /\ previewTattoo \in OptionalOf(Tattoo)
  /\ previewColor \in OptionalOf(Color)
  /\ edit \in OptionalOf(EditSession)
  /\ error \in OptionalOf(Error)
  /\ generation \in Nat
  /\ pending \in [Kind -> OptionalOf(AnyTicket)]
  /\ \A k \in Kind : pending[k] \in OptionalOf(Ticket(k))
  /\ active \in [Kind -> Nat]
  /\ catalogArea \in OptionalOf(Area)

\* The tables of tickets a completion or a change of area starts from.
PendingType(p) ==
  /\ p \in [Kind -> OptionalOf(AnyTicket)]
  /\ \A k \in Kind : p[k] \in OptionalOf(Ticket(k))

\* Forgetting a ticket keeps the table well typed.
LEMMA ForgetType ==
  ASSUME NEW p, PendingType(p), NEW k \in Kind
  PROVE  PendingType([p EXCEPT ![k] = None])
BY DEF PendingType

\* nextGeneration and the assignment of a new ticket.
LEMMA IssueType ==
  ASSUME ModelType, NEW k \in Kind, NEW r \in Request(k),
         NEW p, PendingType(p), NEW g \in [Kind -> Nat],
         Issue(k, r, p, g)
  PROVE  /\ generation' \in Nat
         /\ PendingType(pending')
         /\ active' \in [Kind -> Nat]
<1> DEFINE t == [gen |-> generation + 1, request |-> r]
<1>1. generation + 1 \in Nat
  BY DEF ModelType
<1>2. t \in Ticket(k)
  BY <1>1, NewTicket
<1>3. t \in AnyTicket
  BY <1>2, TicketIsTicket
<1>4. pending' = [p EXCEPT ![k] = t]
  BY DEF Issue
<1> HIDE DEF t
<1>5. PendingType(pending')
  BY <1>2, <1>3, <1>4 DEF PendingType
<1> QED
  BY <1>1, <1>5 DEF Issue

\* scheduleSlotQuery
LEMMA QueryType ==
  ASSUME ModelType, NEW a \in Area, NEW p, PendingType(p), NEW g \in [Kind -> Nat],
         ScheduleSlotQuery(a, p, g)
  PROVE  /\ generation' \in Nat
         /\ PendingType(pending')
         /\ active' \in [Kind -> Nat]
         /\ error' = None
<1>1. Issue("query", [area |-> a], p, g) /\ error' = None
  BY DEF ScheduleSlotQuery
<1>2. "query" \in Kind
  BY DEF Kind
<1>3. [area |-> a] \in Request("query")
  BY RequestsTyped
<1> QED
  BY <1>1, <1>2, <1>3, IssueType

\* The gestures of the list of slots.
LEMMA CurrentSlotsType ==
  ASSUME ModelType, CurrentSlotsGesture
  PROVE  ModelType'
<1> USE DEF browseVars, choiceVars, ticketVars, modelVars
<1>0. PendingType(pending) /\ active \in [Kind -> Nat]
  BY DEF ModelType, PendingType
<1>1. CASE RefreshSelectedArea
  <2>1. ScheduleSlotQuery(selectedArea, pending, active)
    BY <1>1 DEF RefreshSelectedArea
  <2>2. /\ generation' \in Nat /\ PendingType(pending')
        /\ active' \in [Kind -> Nat] /\ error' = None
    BY <1>0, <2>1, QueryType DEF ModelType
  <2> QED
    BY <1>1, <2>2 DEF RefreshSelectedArea, ModelType, PendingType
<1>2. ASSUME NEW a \in Area, SelectArea(a)
      PROVE  ModelType'
  <2> DEFINE p == [pending EXCEPT !["appearance"] = None]
             g == [active EXCEPT !["appearance"] = 0]
  <2>1. PendingType(p) /\ g \in [Kind -> Nat]
    BY <1>0, ForgetType DEF Kind
  <2>2. /\ generation' \in Nat /\ PendingType(pending')
        /\ active' \in [Kind -> Nat] /\ error' = None
    <3>1. CASE ScheduleSlotQuery(a, p, g)
      <4> HIDE DEF p, g
      <4> QED
        BY <2>1, <3>1, QueryType
    <3>2. CASE error' = None /\ pending' = p /\ active' = g /\ UNCHANGED generation
      BY <2>1, <3>2 DEF ModelType
    <3> QED
      BY <1>2, <3>1, <3>2 DEF SelectArea
  <2>3. ClampedPage(pageIndex[a], slots[a]) \in Nat
    BY ClampedPageType DEF ModelType
  <2>4. pageIndex' \in [Area -> Nat]
    BY <1>2, <2>3 DEF SelectArea, ModelType
  <2> QED
    BY <1>2, <2>2, <2>4 DEF SelectArea, ModelType, PendingType, Screen
<1>3. CASE \E page \in Nat : TurnSlotPage(page)
  BY <1>3 DEF TurnSlotPage, ModelType
<1>4. CASE PreviousSlotPage
  <2>1. pageIndex[selectedArea] - 1 \in Nat
    BY <1>4 DEF PreviousSlotPage, ModelType
  <2> QED
    BY <1>3, <1>4, <2>1 DEF PreviousSlotPage
<1>5. CASE NextSlotPage
  <2>1. pageIndex[selectedArea] + 1 \in Nat
    BY DEF ModelType
  <2> QED
    BY <1>3, <1>5, <2>1 DEF NextSlotPage
<1>6. ASSUME NEW n \in Nat, SetSlotPageNumber(n)
      PROVE  ModelType'
  <2> DEFINE page == IF n = 0 THEN 0 ELSE n - 1
  <2>1. page \in Nat
    OBVIOUS
  <2>2. ClampedPage(page, slots[selectedArea]) \in Nat
    BY <2>1, ClampedPageType DEF ModelType
  <2> QED
    BY <1>3, <1>6, <2>2 DEF SetSlotPageNumber
<1>7. ASSUME NEW i \in Slot, SelectSlot(i)
      PROVE  ModelType'
  <2> DEFINE found == slots[selectedArea][i]
  <2>1. slots[selectedArea] \in Snapshot(selectedArea) /\ i \in DOMAIN slots[selectedArea]
    BY <1>7 DEF SelectSlot, ModelType
  <2>2. found \in SlotState
    BY <2>1, SnapshotSlot DEF ModelType
  <2>3. found.occupancy = "slaveTats" => found.color \in Int
    BY <2>2, ColorAssumption DEF SlotState, Managed, Unmanaged
  <2>4. previewColor' \in Color /\ screen' \in Screen /\ catalogArea' \in OptionalOf(Area)
    <3>1. CASE found.occupancy = "slaveTats"
      BY <1>7, <2>3, <3>1, ClampType DEF SelectSlot, Screen, ModelType
    <3>2. CASE found.occupancy = "empty"
      BY <1>7, <3>2, ColorAssumption DEF SelectSlot, OpenPicker, Screen, ModelType, Color
    <3> QED
      BY <1>7, <3>1, <3>2 DEF SelectSlot
  <2> QED
    BY <1>7, <2>4 DEF SelectSlot, ModelType
<1> QED
  <2>1. PageCount(slots[selectedArea]) \in Nat
    BY PageCountNat DEF ModelType
  <2>2. 0 .. PageCount(slots[selectedArea]) + 1 \subseteq Nat
    BY <2>1
  <2> QED
    BY <1>1, <1>2, <1>4, <1>5, <1>6, <1>7, <2>2 DEF CurrentSlotsGesture
\* The gestures of the slot menu and of the removal.
LEMMA SlotActionsType ==
  ASSUME ModelType, SlotActionsGesture
  PROVE  ModelType'
<1> USE DEF browseVars, choiceVars, ticketVars, modelVars
<1>1. CASE BackToSlots
  BY <1>1 DEF BackToSlots, ModelType, Screen
<1>2. CASE ReplaceSelectedSlot
  BY <1>2 DEF ReplaceSelectedSlot, OpenPicker, ModelType, Screen
<1>3. CASE BeginEditAppearance
  <2>1. slots[selectedArea] \in Snapshot(selectedArea) /\ targetSlot \in DOMAIN slots[selectedArea]
    BY <1>3 DEF BeginEditAppearance, TargetKnown, ModelType
  <2>2. Target \in SlotState /\ targetSlot \in Slot
    BY <2>1, SnapshotSlot DEF Target, ModelType
  <2>3. Target.handle \in Handle /\ Target.color \in RawColor
    BY <1>3, <2>2 DEF BeginEditAppearance, SlotState, Managed, Unmanaged
  <2>4. edit' \in EditSession
    BY <1>3, <2>2, <2>3 DEF BeginEditAppearance, EditSession, Mode, ModelType
  <2> QED
    BY <1>3, <2>4 DEF BeginEditAppearance, ModelType, Screen
<1>4. CASE RequestRemove
  BY <1>4 DEF RequestRemove, ModelType, Screen
<1>5. CASE CancelRemove
  BY <1>5 DEF CancelRemove, ModelType, Screen
<1>6. CASE ConfirmRemove
  <2> DEFINE r == [area |-> selectedArea, slot |-> targetSlot, mode |-> RemoveMode]
  <2>1. RemoveMode \in Mode
    BY DEF RemoveMode, Mode
  <2>2. r \in Request("remove")
    BY <1>6, <2>1, RequestsTyped DEF ConfirmRemove, ModelType
  <2>3. Issue("remove", r, pending, active)
    BY <1>6 DEF ConfirmRemove
  <2>4. "remove" \in Kind /\ PendingType(pending) /\ active \in [Kind -> Nat]
    BY DEF Kind, ModelType, PendingType
  <2> HIDE DEF r
  <2>5. generation' \in Nat /\ PendingType(pending') /\ active' \in [Kind -> Nat]
    BY <2>2, <2>3, <2>4, IssueType
  <2> QED
    BY <1>6, <2>5 DEF ConfirmRemove, ModelType, PendingType, Screen
<1> QED
  BY <1>1, <1>2, <1>3, <1>4, <1>5, <1>6 DEF SlotActionsGesture

\* The gestures of the picker and the preview.
LEMMA PreviewType ==
  ASSUME ModelType, PickerGesture \/ PreviewGesture
  PROVE  ModelType'
<1> USE DEF browseVars, choiceVars, ticketVars, modelVars
<1>1. CASE BackToSlots
  BY <1>1 DEF BackToSlots, ModelType, Screen
<1>2. ASSUME NEW t \in Tattoo, SelectTattoo(t)
      PROVE  ModelType'
  BY <1>2 DEF SelectTattoo, ModelType, Screen
<1>3. ASSUME NEW c \in Color, SetPreviewAppearance(c)
      PROVE  ModelType'
  <2>1. Clamp(c) \in Color
    BY ClampType, ColorAssumption DEF Color
  <2> QED
    BY <1>3, <2>1 DEF SetPreviewAppearance, ModelType
<1>4. CASE ConfirmApply
  <2> DEFINE r == [area |-> selectedArea, slot |-> targetSlot,
                   tattoo |-> previewTattoo, color |-> previewColor]
  <2>1. r \in Request("apply")
    BY <1>4, RequestsTyped DEF ConfirmApply, ModelType
  <2>2. Issue("apply", r, pending, active)
    BY <1>4 DEF ConfirmApply
  <2>3. "apply" \in Kind /\ PendingType(pending) /\ active \in [Kind -> Nat]
    BY DEF Kind, ModelType, PendingType
  <2> HIDE DEF r
  <2>4. generation' \in Nat /\ PendingType(pending') /\ active' \in [Kind -> Nat]
    BY <2>1, <2>2, <2>3, IssueType
  <2> QED
    BY <1>4, <2>4 DEF ConfirmApply, ModelType, PendingType, Screen
<1> QED
  BY <1>1, <1>2, <1>3, <1>4 DEF PickerGesture, PreviewGesture, CancelPreview

\* The gestures of the edit session.
LEMMA EditType ==
  ASSUME ModelType, EditGesture
  PROVE  ModelType'
<1> USE DEF browseVars, choiceVars, ticketVars, modelVars
<1>1. ASSUME NEW c \in Color, SetEditedAppearance(c)
      PROVE  ModelType'
  <2>1. Clamp(c) \in Color
    BY ClampType, ColorAssumption DEF Color
  <2>2. edit' \in EditSession
    BY <1>1, <2>1 DEF SetEditedAppearance, ModelType, EditSession
  <2> QED
    BY <1>1, <2>2 DEF SetEditedAppearance, ModelType
<1>2. CASE CancelEditAppearance
  BY <1>2 DEF CancelEditAppearance, ModelType, Screen
<1>3. CASE ConfirmAppearanceUpdate
  <2> DEFINE r == [handle |-> edit.handle, color |-> edit.edited, mode |-> edit.mode]
  <2>1. edit \in EditSession
    BY <1>3 DEF ConfirmAppearanceUpdate, CanSaveAppearance, ModelType
  <2>2. edit.handle \in Handle /\ edit.edited \in RawColor \cup Color /\ edit.mode \in Mode
    BY <2>1 DEF EditSession
  <2>3. r \in Request("appearance")
    BY <2>2, RequestsTyped
  <2>4. Issue("appearance", r, pending, active)
    BY <1>3 DEF ConfirmAppearanceUpdate
  <2>5. "appearance" \in Kind /\ PendingType(pending) /\ active \in [Kind -> Nat]
    BY DEF Kind, ModelType, PendingType
  <2> HIDE DEF r
  <2>6. generation' \in Nat /\ PendingType(pending') /\ active' \in [Kind -> Nat]
    BY <2>3, <2>4, <2>5, IssueType
  <2> QED
    BY <1>3, <2>6 DEF ConfirmAppearanceUpdate, ModelType, PendingType, Screen
<1> QED
  BY <1>1, <1>2, <1>3 DEF EditGesture

\* The completions of completeSlotQuery, completeApply, completeRemove and
\* completeAppearanceUpdate, from any table of pending tickets.
LEMMA CompleteType ==
  ASSUME ModelType, NEW k \in Kind, NEW ticket \in Ticket(k),
         NEW result \in Results(k, ticket.request),
         NEW p, PendingType(p), Complete(k, ticket, result, p)
  PROVE  ModelType'
<1> USE DEF browseVars, choiceVars, ticketVars, modelVars
<1>1. /\ ticket.request \in Request(k)
      /\ result.error \in OptionalOf(Error)
      /\ k = "query" /\ result.error = None =>
           result.slots \in Snapshot(ticket.request.area)
  BY ResultShape DEF Ticket
<1>2. Retired(k) \in [Kind -> Nat]
  BY DEF Retired, ModelType
<1>3. CASE Superseded(k, ticket, p)
  BY <1>3 DEF Superseded, Complete, ModelType, PendingType
<1>4. CASE k = "query" /\ CompleteSlotQuery(ticket.request.area, result, p)
  <2>1. ticket.request.area \in Area
    BY <1>1, <1>4 DEF Request
  <2>2. CASE result.error # None /\ UNCHANGED <<slots, pageIndex>>
    BY <1>1, <1>2, <1>4, <2>2 DEF CompleteSlotQuery, Complete, ModelType, PendingType
  <2>3. CASE /\ result.error = None
             /\ slots' = [slots EXCEPT ![ticket.request.area] = result.slots]
             /\ pageIndex' = [pageIndex EXCEPT ![selectedArea] =
                                ClampedPage(@, slots'[selectedArea])]
    <3>1. result.slots \in Snapshot(ticket.request.area) /\ result.slots \in AnySnapshot
      BY <1>1, <1>4, <2>1, <2>3 DEF AnySnapshot
    <3>2. /\ slots' \in [Area -> OptionalOf(AnySnapshot)]
          /\ \A a \in Area : slots'[a] \in OptionalOf(Snapshot(a))
      BY <2>1, <2>3, <3>1 DEF ModelType
    <3>3. ClampedPage(pageIndex[selectedArea], slots'[selectedArea]) \in Nat
      BY <3>2, ClampedPageType DEF ModelType
    <3>4. pageIndex' \in [Area -> Nat]
      BY <2>3, <3>3 DEF ModelType
    <3> QED
      BY <1>1, <1>2, <1>4, <3>2, <3>4 DEF CompleteSlotQuery, Complete, ModelType, PendingType
  <2> QED
    BY <1>4, <2>2, <2>3 DEF CompleteSlotQuery
<1>5. ASSUME NEW retryScreen \in Screen, MutationFails(k, result, p, retryScreen)
      PROVE  /\ screen' \in Screen /\ error' \in OptionalOf(Error) /\ generation' \in Nat
             /\ PendingType(pending') /\ active' \in [Kind -> Nat]
  BY <1>1, <1>2, <1>5 DEF MutationFails, ModelType
<1>6. ASSUME MutationSucceeds(k, result, p)
      PROVE  /\ screen' \in Screen /\ error' \in OptionalOf(Error) /\ generation' \in Nat
             /\ PendingType(pending') /\ active' \in [Kind -> Nat] /\ targetSlot' = None
  <2>1. ScheduleSlotQuery(selectedArea, p, Retired(k)) /\ selectedArea \in Area
    BY <1>6 DEF MutationSucceeds, ModelType
  <2>2. /\ generation' \in Nat /\ PendingType(pending')
        /\ active' \in [Kind -> Nat] /\ error' = None
    BY <1>2, <2>1, QueryType
  <2> QED
    BY <1>6, <2>2 DEF MutationSucceeds, Screen
<1>7. CASE k = "apply" /\ CompleteApply(result, p)
  <2>1. "preview" \in Screen
    BY DEF Screen
  <2> QED
    BY <1>5, <1>6, <1>7, <2>1 DEF CompleteApply, Complete, ModelType, PendingType
<1>8. CASE k = "remove" /\ CompleteRemove(result, p)
  <2>1. "removeConfirmation" \in Screen
    BY DEF Screen
  <2> QED
    BY <1>5, <1>6, <1>8, <2>1 DEF CompleteRemove, Complete, ModelType, PendingType
<1>9. CASE k = "appearance" /\ CompleteAppearanceUpdate(result, p)
  <2>1. "editAppearance" \in Screen
    BY DEF Screen
  <2>2. edit # None => [edit EXCEPT !.mode = NextEditMode(result.error)] \in EditSession
    BY DEF ModelType, EditSession, NextEditMode, Mode
  <2> QED
    BY <1>5, <1>6, <1>9, <2>1, <2>2 DEF CompleteAppearanceUpdate, Complete, ModelType, PendingType
<1> QED
  BY <1>3, <1>4, <1>7, <1>8, <1>9 DEF Complete, Kind
\* The part of TypeOK that is about the coordinator and the window.
RunType ==
  /\ task \in OptionalOf(Task)
  /\ task # None =>
       /\ task.ticket \in Ticket(task.kind)
       /\ task.result \in OptionalOf(Results(task.kind, task.ticket.request))
  /\ windowOpen \in BOOLEAN
  /\ inFrame \in BOOLEAN

LEMMA TypeOKParts == TypeOK <=> ModelType /\ RunType
BY DEF TypeOK, ModelType, RunType

\* A task just scheduled has its ticket and no answer yet.
LEMMA NewTask ==
  ASSUME NEW k \in Kind, NEW t \in Ticket(k)
  PROVE  LET new == [kind |-> k, ticket |-> t, result |-> None]
         IN new \in Task /\ new # None
<1>1. t \in AnyTicket
  BY TicketIsTicket
<1>2. [kind |-> k, ticket |-> t, result |-> None] \in Task
  BY <1>1 DEF Task
<1> QED
  BY <1>2, NoneMemberAssumption

\* The frame's pump and the two halves of a task.
LEMMA RunStepType ==
  ASSUME TypeOK, NEW k \in Kind, Taken(k), Schedule(k) \/ SchedulerRejects(k)
  PROVE  /\ ModelType'
         /\ task' \in OptionalOf(Task)
         /\ task' # None =>
              /\ task'.ticket \in Ticket(task'.kind)
              /\ task'.result \in OptionalOf(Results(task'.kind, task'.ticket.request))
<1>1. pending[k] \in Ticket(k) /\ ModelType /\ RunType
  BY TypeOKParts DEF Taken, ModelType
<1>2. PendingType(pending)
  BY <1>1 DEF ModelType, PendingType
<1>3. PendingType([pending EXCEPT ![k] = None])
  BY <1>2, ForgetType
<1>4. CASE Schedule(k)
  <2>1. /\ task' = [kind |-> k, ticket |-> pending[k], result |-> None]
        /\ task' \in Task /\ task' # None
    BY <1>1, <1>4, NewTask DEF Schedule
  <2>2. /\ task'.kind = k /\ task'.ticket = pending[k] /\ task'.result = None
    BY <2>1
  <2>3. ModelType'
    BY <1>1, <1>3, <1>4 DEF Schedule, ModelType, PendingType, browseVars, choiceVars
  <2> QED
    BY <1>1, <2>1, <2>2, <2>3
<1>5. CASE SchedulerRejects(k)
  <2>1. pending[k].request \in Request(k)
    BY <1>1 DEF Ticket
  <2>2. [error |-> ExceptionError(k, pending[k].request)] \in Results(k, pending[k].request)
    BY <2>1, RefusalIsResult
  <2>3. ModelType'
    BY <1>1, <1>3, <1>5, <2>2, CompleteType DEF SchedulerRejects
  <2> QED
    BY <1>1, <1>5, <2>3 DEF SchedulerRejects, RunType
<1> QED
  BY <1>4, <1>5

\* Every step of the workflow keeps its types.
LEMMA TypeStep == TypeOK /\ [Next]_vars => TypeOK'
<1> SUFFICES ASSUME TypeOK, [Next]_vars
             PROVE  TypeOK'
  OBVIOUS
<1>0. ModelType /\ RunType
  BY TypeOKParts
<1>1. CASE Start
  <2>1. PendingType(pending) /\ active \in [Kind -> Nat] /\ selectedArea \in Area
    BY <1>0 DEF ModelType, PendingType
  <2>2. ScheduleSlotQuery(selectedArea, pending, active)
    BY <1>1 DEF Start
  <2>3. /\ generation' \in Nat /\ PendingType(pending')
        /\ active' \in [Kind -> Nat] /\ error' = None
    BY <1>0, <2>1, <2>2, QueryType
  <2>4. ModelType'
    BY <1>0, <1>1, <2>3 DEF Start, ModelType, PendingType, choiceVars
  <2>5. RunType'
    BY <1>0, <1>1 DEF Start, RunType
  <2> QED
    BY <2>4, <2>5 DEF TypeOK, ModelType, RunType
<1>2. CASE ToggleWindow
  <2>1. ModelType' /\ RunType'
    BY <1>0, <1>2 DEF ToggleWindow, RunType, ModelType, modelVars, browseVars,
         choiceVars, ticketVars
  <2> QED
    BY <2>1 DEF TypeOK, ModelType, RunType
<1>3. CASE Gesture
  <2>1. ModelType'
    BY <1>0, <1>3, CurrentSlotsType, SlotActionsType, PreviewType, EditType DEF Gesture
  <2>2. RunType'
    BY <1>0, <1>3 DEF Gesture, RunType
  <2> QED
    BY <2>1, <2>2 DEF TypeOK, ModelType, RunType
<1>4. CASE FrameEnds
  <2>1. ModelType' /\ RunType'
    BY <1>0, <1>4 DEF FrameEnds, RunType, ModelType, modelVars, browseVars,
         choiceVars, ticketVars
  <2> QED
    BY <2>1 DEF TypeOK, ModelType, RunType
<1>5. CASE Pump
  <2>1. windowOpen' = windowOpen /\ inFrame' = TRUE
    BY <1>5 DEF Pump
  <2>2. CASE UNCHANGED <<modelVars, task>>
    <3>1. ModelType' /\ RunType'
      BY <1>0, <2>1, <2>2 DEF RunType, ModelType, modelVars, browseVars,
           choiceVars, ticketVars
    <3> QED
      BY <3>1 DEF TypeOK, ModelType, RunType
  <2>3. ASSUME NEW k \in Kind, Taken(k), Schedule(k) \/ SchedulerRejects(k)
        PROVE  TypeOK'
    <3>1. ModelType' /\ RunType'
      BY <1>0, <2>1, <2>3, RunStepType DEF RunType
    <3> QED
      BY <3>1 DEF TypeOK, ModelType, RunType
  <2> QED
    BY <1>5, <2>2, <2>3 DEF Pump
<1>6. ASSUME task # None,
             NEW r \in Results(task.kind, task.ticket.request), TaskReturns(r)
      PROVE  TypeOK'
  <2>1. task \in Task /\ task.kind \in Kind /\ task.ticket \in Ticket(task.kind)
    BY <1>0, <1>6 DEF RunType, Task
  <2>2. task.ticket.request \in Request(task.kind)
    BY <2>1 DEF Ticket
  <2>3. r \in AnyResult
    BY <2>1, <2>2, ResultShape
  <2>4. task' = [task EXCEPT !.result = r]
    BY <1>6 DEF TaskReturns
  <2>5. /\ task' \in Task /\ task'.kind = task.kind
        /\ task'.ticket = task.ticket /\ task'.result = r
    BY <2>1, <2>3, <2>4 DEF Task
  <2>6. RunType'
    BY <1>0, <1>6, <2>1, <2>5 DEF RunType, TaskReturns
  <2>7. ModelType'
    BY <1>0, <1>6 DEF TaskReturns, ModelType, modelVars, browseVars, choiceVars, ticketVars
  <2> QED
    BY <2>6, <2>7 DEF TypeOK, ModelType, RunType
<1>7. CASE TaskCompletes
  <2>1. /\ task.kind \in Kind /\ task.ticket \in Ticket(task.kind)
        /\ task.result \in Results(task.kind, task.ticket.request)
    BY <1>0, <1>7 DEF TaskCompletes, RunType, Task
  <2>2. PendingType(pending)
    BY <1>0 DEF ModelType, PendingType
  <2>3. ModelType'
    BY <1>0, <1>7, <2>1, <2>2, CompleteType DEF TaskCompletes
  <2>4. RunType'
    BY <1>0, <1>7 DEF TaskCompletes, RunType
  <2> QED
    BY <2>3, <2>4 DEF TypeOK, ModelType, RunType
<1>8. CASE UNCHANGED vars
  BY <1>8 DEF TypeOK, vars
<1> QED
  BY <1>1, <1>2, <1>3, <1>4, <1>5, <1>6, <1>7, <1>8 DEF Next, UserStep

LEMMA TypeInit == Init => TypeOK
<1> SUFFICES ASSUME Init
             PROVE  TypeOK
  OBVIOUS
<1> USE FirstAreaAssumption
<1>1. ModelType
  BY DEF Init, ModelType, Screen
<1>2. RunType
  BY DEF Init, RunType
<1> QED
  BY <1>1, <1>2, TypeOKParts

\* Every member of the workflow model, the coordinator and the window keeps
\* its type, and a task answers its own request.
THEOREM TypeCorrect == Spec => []TypeOK
BY TypeInit, TypeStep, PTL DEF Spec
-----------------------------------------------------------------------------
(* The inductive invariant                                                 *)

\* Generation 0 stands for none: no ticket carries it.
TicketsIssued ==
  /\ \A k \in Kind : pending[k] # None => pending[k].gen # 0
  /\ task # None => task.ticket.gen # 0

\* A mutation that waits or runs is always the one the model waits for;
\* only queries are superseded.
MutationAwaited ==
  \A k \in Mutation :
    /\ pending[k] # None => pending[k].gen = active[k]
    /\ task # None /\ task.kind = k => task.ticket.gen = active[k] /\ pending[k] = None

\* An edit session exists only on the screens that show it.
EditOnScreen == edit # None => screen \in {"editAppearance", "savingAppearance"}

WorkInv ==
  /\ TicketsIssued
  /\ MutationAwaited
  /\ TicketLive
  /\ BusyScreenHasOperation
  /\ ShownIsExecuted
  /\ EditOnScreen

-----------------------------------------------------------------------------
(* What a step does to a ticket                                            *)

\* The screens only a completion leaves.
Busy == {"applying", "removing", "savingAppearance"}

Untouched(k) == active'[k] = active[k] /\ pending'[k] = pending[k]
Dropped(k) == active'[k] = 0 /\ pending'[k] = None
Fresh(k) == /\ active'[k] # 0
            /\ pending'[k] # None
            /\ pending'[k].gen = active'[k]

LEMMA Kinds ==
  /\ Mutation = {"apply", "remove", "appearance"}
  /\ Kind = Mutation \cup {"query"}
  /\ "query" \notin Mutation
  /\ BusyScreen("apply") = "applying"
  /\ BusyScreen("remove") = "removing"
  /\ BusyScreen("appearance") = "savingAppearance"
  /\ \A k \in Mutation : BusyScreen(k) \in Busy
  /\ \A k, l \in Mutation : BusyScreen(k) = BusyScreen(l) => k = l
BY DEF Mutation, Kind, BusyScreen, Busy

\* On any other screen the model awaits no mutation, and none is anywhere.
LEMMA IdleScreen ==
  ASSUME TicketsIssued, MutationAwaited, BusyScreenHasOperation, screen \notin Busy,
         NEW k \in Mutation
  PROVE  active[k] = 0 /\ pending[k] = None /\ (task # None => task.kind # k)
<1>1. active[k] = 0
  BY Kinds DEF BusyScreenHasOperation
<1> QED
  BY <1>1, Kinds DEF TicketsIssued, MutationAwaited

\* nextGeneration issues a ticket nobody else has, and only that one.
LEMMA IssueEffect ==
  ASSUME ModelType, NEW k \in Kind, NEW r \in Request(k),
         NEW p, PendingType(p), NEW g \in [Kind -> Nat], Issue(k, r, p, g)
  PROVE  /\ Fresh(k)
         /\ pending'[k].request = r
         /\ generation' = generation + 1
         /\ pending'[k].gen = generation' /\ active'[k] = generation'
         /\ \A l \in Kind \ {k} : pending'[l] = p[l] /\ active'[l] = g[l]
<1> DEFINE t == [gen |-> generation + 1, request |-> r]
<1>1. generation + 1 \in Nat /\ generation + 1 # 0
  BY DEF ModelType
<1>2. t \in Ticket(k) /\ t.gen = generation + 1 /\ t.request = r
  BY <1>1, NewTicket
<1>3. t # None
  BY <1>2, TicketIsTicket
<1>4. /\ pending' = [p EXCEPT ![k] = t]
      /\ active' = [g EXCEPT ![k] = generation + 1]
  BY DEF Issue
<1> HIDE DEF t
<1>5. pending'[k] = t /\ active'[k] = generation + 1
  BY <1>4 DEF PendingType
<1>6. \A l \in Kind \ {k} : pending'[l] = p[l] /\ active'[l] = g[l]
  BY <1>4 DEF PendingType
<1> QED
  BY <1>1, <1>2, <1>3, <1>5, <1>6 DEF Fresh, Issue

LEMMA QueryEffect ==
  ASSUME ModelType, NEW a \in Area, NEW p, PendingType(p), NEW g \in [Kind -> Nat],
         ScheduleSlotQuery(a, p, g)
  PROVE  /\ Fresh("query")
         /\ pending'["query"].request.area = a
         /\ generation' = generation + 1
         /\ pending'["query"].gen = generation' /\ active'["query"] = generation'
         /\ \A l \in Mutation : pending'[l] = p[l] /\ active'[l] = g[l]
<1>1. Issue("query", [area |-> a], p, g) /\ [area |-> a] \in Request("query")
  BY RequestsTyped DEF ScheduleSlotQuery
<1> QED
  BY <1>1, IssueEffect, Kinds

-----------------------------------------------------------------------------
(* Steps that leave the operations alone                                   *)

\* A step of the user on an idle screen that ends on an idle screen.
LEMMA IdleStep ==
  ASSUME WorkInv, screen \notin Busy, screen' \notin Busy,
         \A k \in Mutation : Untouched(k) \/ Dropped(k),
         Untouched("query") \/ Fresh("query"),
         task' = task, EditOnScreen'
  PROVE  WorkInv'
<1>1. \A k \in Mutation : active[k] = 0 /\ pending[k] = None /\ (task # None => task.kind # k)
  BY IdleScreen DEF WorkInv
<1>2. \A k \in Mutation : active'[k] = 0 /\ pending'[k] = None
  BY <1>1 DEF Untouched, Dropped
<1>3. TicketsIssued'
  <2>1. ASSUME NEW k \in Kind, pending'[k] # None
        PROVE  pending'[k].gen # 0
    BY <1>2, <2>1, Kinds DEF WorkInv, TicketsIssued, Untouched, Fresh
  <2> QED
    BY <2>1 DEF TicketsIssued, WorkInv
<1>4. MutationAwaited'
  BY <1>1, <1>2 DEF MutationAwaited
<1>5. TicketLive'
  <2>1. ASSUME NEW k \in Kind, active'[k] # 0
        PROVE  \/ pending'[k] # None /\ pending'[k].gen = active'[k]
               \/ task' # None /\ task'.kind = k /\ task'.ticket.gen = active'[k]
    BY <1>2, <2>1, Kinds DEF WorkInv, TicketLive, Untouched, Fresh
  <2> QED
    BY <2>1 DEF TicketLive
<1>6. BusyScreenHasOperation'
  BY <1>2, Kinds DEF BusyScreenHasOperation
<1>7. ShownIsExecuted'
  BY <1>2 DEF ShownIsExecuted
<1> QED
  BY <1>3, <1>4, <1>5, <1>6, <1>7 DEF WorkInv

\* A step that changes neither the screen nor what it shows, nor a mutation.
LEMMA StandStill ==
  ASSUME WorkInv, UNCHANGED <<screen, selectedArea, choiceVars>>,
         \A k \in Mutation : Untouched(k),
         Untouched("query") \/ Fresh("query"),
         \/ task' = task
         \/ /\ task # None /\ task' # None
            /\ task'.kind = task.kind /\ task'.ticket = task.ticket
  PROVE  WorkInv'
<1> USE DEF choiceVars
<1>1. TicketsIssued'
  <2>1. ASSUME NEW k \in Kind, pending'[k] # None
        PROVE  pending'[k].gen # 0
    BY <2>1, Kinds DEF WorkInv, TicketsIssued, Untouched, Fresh
  <2> QED
    BY <2>1 DEF TicketsIssued, WorkInv
<1>2. MutationAwaited'
  BY DEF WorkInv, MutationAwaited, Untouched
<1>3. TicketLive'
  <2>1. ASSUME NEW k \in Kind, active'[k] # 0
        PROVE  \/ pending'[k] # None /\ pending'[k].gen = active'[k]
               \/ task' # None /\ task'.kind = k /\ task'.ticket.gen = active'[k]
    BY <2>1, Kinds DEF WorkInv, TicketLive, Untouched, Fresh
  <2> QED
    BY <2>1 DEF TicketLive
<1>4. BusyScreenHasOperation'
  BY DEF WorkInv, BusyScreenHasOperation, Untouched
<1>5. ShownIsExecuted'
  <2>1. ASSUME NEW k \in Mutation, active'[k] # 0
        PROVE  ShownBy(k, OutstandingTicket(k).request)'
    <3>1. active[k] # 0 /\ k \in Kind
      BY <2>1, Kinds DEF Untouched
    <3>2. ShownBy(k, OutstandingTicket(k).request)
      BY <3>1 DEF WorkInv, ShownIsExecuted
    <3>3. OutstandingTicket(k)' = OutstandingTicket(k)
      BY <3>1 DEF WorkInv, TicketLive, OutstandingTicket, Untouched
    <3> QED
      BY <3>2, <3>3 DEF ShownBy
  <2> QED
    BY <2>1 DEF ShownIsExecuted
<1>6. EditOnScreen'
  BY DEF WorkInv, EditOnScreen
<1> QED
  BY <1>1, <1>2, <1>3, <1>4, <1>5, <1>6 DEF WorkInv

\* A confirmation: one new mutation, shown by the screen that awaits it.
LEMMA ConfirmStep ==
  ASSUME WorkInv, screen \notin Busy,
         NEW k \in Mutation, Fresh(k), screen' = BusyScreen(k),
         ShownBy(k, pending[k].request)',
         \A l \in Kind \ {k} : Untouched(l),
         task' = task, EditOnScreen'
  PROVE  WorkInv'
<1>1. \A l \in Mutation : active[l] = 0 /\ pending[l] = None /\ (task # None => task.kind # l)
  BY IdleScreen DEF WorkInv
<1>2. \A l \in Mutation \ {k} : active'[l] = 0 /\ pending'[l] = None
  BY <1>1, Kinds DEF Untouched
<1>3. TicketsIssued'
  <2>1. ASSUME NEW l \in Kind, pending'[l] # None
        PROVE  pending'[l].gen # 0
    BY <2>1 DEF WorkInv, TicketsIssued, Untouched, Fresh
  <2> QED
    BY <2>1 DEF TicketsIssued, WorkInv
<1>4. MutationAwaited'
  BY <1>1, <1>2 DEF MutationAwaited, Fresh
<1>5. TicketLive'
  <2>1. ASSUME NEW l \in Kind, active'[l] # 0
        PROVE  \/ pending'[l] # None /\ pending'[l].gen = active'[l]
               \/ task' # None /\ task'.kind = l /\ task'.ticket.gen = active'[l]
    BY <2>1 DEF WorkInv, TicketLive, Untouched, Fresh
  <2> QED
    BY <2>1 DEF TicketLive
<1>6. BusyScreenHasOperation'
  BY <1>2, Kinds DEF BusyScreenHasOperation, Fresh
<1>7. ShownIsExecuted'
  <2>1. OutstandingTicket(k)' = pending'[k]
    BY DEF OutstandingTicket, Fresh
  <2> QED
    BY <1>2, <2>1 DEF ShownIsExecuted
<1> QED
  BY <1>3, <1>4, <1>5, <1>6, <1>7 DEF WorkInv
\* No gesture is offered on a busy screen, and only three lead to one.
LEMMA GestureStep ==
  ASSUME TypeOK, WorkInv, Gesture
  PROVE  WorkInv'
<1> USE DEF browseVars, choiceVars, ticketVars, modelVars
<1>0. ModelType /\ task' = task
  BY TypeOKParts DEF Gesture
<1>1. PendingType(pending) /\ active \in [Kind -> Nat]
  BY <1>0 DEF ModelType, PendingType
<1>2. ASSUME screen \notin Busy, screen' \notin Busy, EditOnScreen', UNCHANGED ticketVars
      PROVE  WorkInv'
  BY <1>0, <1>2, IdleStep DEF Untouched
<1>3. CASE CurrentSlotsGesture
  <2>1. screen = "currentSlots" /\ screen \notin Busy
    BY <1>3 DEF CurrentSlotsGesture, Busy
  <2>2. edit = None
    BY <2>1 DEF WorkInv, EditOnScreen
  <2>3. CASE RefreshSelectedArea
    <3>1. ScheduleSlotQuery(selectedArea, pending, active) /\ selectedArea \in Area
      BY <1>0, <2>3 DEF RefreshSelectedArea, ModelType
    <3>2. Fresh("query") /\ \A l \in Mutation : Untouched(l)
      BY <1>0, <1>1, <3>1, QueryEffect DEF Untouched
    <3>3. screen' = screen /\ EditOnScreen'
      BY <2>2, <2>3 DEF RefreshSelectedArea, EditOnScreen
    <3> QED
      BY <1>0, <2>1, <3>2, <3>3, IdleStep
  <2>4. ASSUME NEW a \in Area, SelectArea(a)
        PROVE  WorkInv'
    <3> DEFINE p == [pending EXCEPT !["appearance"] = None]
               g == [active EXCEPT !["appearance"] = 0]
    <3>1. PendingType(p) /\ g \in [Kind -> Nat]
      BY <1>1, ForgetType DEF Kind
    <3>2. /\ p["appearance"] = None /\ g["appearance"] = 0
          /\ \A l \in Kind \ {"appearance"} : p[l] = pending[l] /\ g[l] = active[l]
      BY <1>1, Kinds DEF PendingType
    <3>3. \/ ScheduleSlotQuery(a, p, g)
          \/ pending' = p /\ active' = g
      BY <2>4 DEF SelectArea
    <3> HIDE DEF p, g
    <3>4. /\ \A l \in Mutation : Untouched(l) \/ Dropped(l)
          /\ Untouched("query") \/ Fresh("query")
      <4>1. CASE ScheduleSlotQuery(a, p, g)
        BY <1>0, <3>1, <3>2, <4>1, QueryEffect, Kinds DEF Untouched, Dropped
      <4>2. CASE pending' = p /\ active' = g
        BY <3>2, <4>2, Kinds DEF Untouched, Dropped
      <4> QED
        BY <3>3, <4>1, <4>2
    <3>5. screen' \notin Busy /\ EditOnScreen'
      BY <2>4 DEF SelectArea, Busy, EditOnScreen
    <3> QED
      BY <1>0, <2>1, <3>4, <3>5, IdleStep
  <2>5. ASSUME NEW page, TurnSlotPage(page)
        PROVE  WorkInv'
    BY <1>2, <2>1, <2>2, <2>5 DEF TurnSlotPage, EditOnScreen
  <2>6. ASSUME NEW i \in Slot, SelectSlot(i)
        PROVE  WorkInv'
    <3>1. screen' \notin Busy /\ edit' = None
      BY <2>6 DEF SelectSlot, OpenPicker, Busy
    <3> QED
      BY <1>2, <2>1, <2>6, <3>1 DEF SelectSlot, EditOnScreen
  <2> QED
    BY <1>3, <2>3, <2>4, <2>5, <2>6 DEF CurrentSlotsGesture, PreviousSlotPage,
       NextSlotPage, SetSlotPageNumber
<1>4. CASE screen \notin Busy /\ BackToSlots
  BY <1>2, <1>4 DEF BackToSlots, Busy, EditOnScreen
<1>5. CASE ReplaceSelectedSlot
  BY <1>2, <1>5 DEF ReplaceSelectedSlot, OpenPicker, Busy, WorkInv, EditOnScreen
<1>6. CASE BeginEditAppearance
  BY <1>2, <1>6 DEF BeginEditAppearance, Busy, EditOnScreen
<1>7. CASE RequestRemove
  BY <1>2, <1>7 DEF RequestRemove, Busy, WorkInv, EditOnScreen
<1>8. CASE CancelRemove
  BY <1>2, <1>8 DEF CancelRemove, Busy, WorkInv, EditOnScreen
<1>9. CASE ConfirmRemove
  <2> DEFINE r == [area |-> selectedArea, slot |-> targetSlot, mode |-> RemoveMode]
  <2>1. r \in Request("remove")
    BY <1>0, <1>9, RequestsTyped DEF ConfirmRemove, ModelType, RemoveMode, Mode
  <2>2. Issue("remove", r, pending, active)
    BY <1>9 DEF ConfirmRemove
  <2>3. r.area = selectedArea /\ r.slot = targetSlot
    OBVIOUS
  <2> HIDE DEF r
  <2>4. Fresh("remove") /\ pending'["remove"].request = r
        /\ \A l \in Kind \ {"remove"} : Untouched(l)
    BY <1>0, <1>1, <2>1, <2>2, IssueEffect, Kinds DEF Untouched
  <2>5. ShownBy("remove", pending["remove"].request)'
    BY <1>9, <2>3, <2>4 DEF ConfirmRemove, ShownBy
  <2>6. screen \notin Busy /\ screen' = BusyScreen("remove") /\ EditOnScreen'
    BY <1>9, Kinds DEF ConfirmRemove, Busy, WorkInv, EditOnScreen
  <2> QED
    BY <1>0, <2>4, <2>5, <2>6, ConfirmStep, Kinds
<1>10. ASSUME NEW t \in Tattoo, SelectTattoo(t)
       PROVE  WorkInv'
  BY <1>2, <1>10 DEF SelectTattoo, Busy, WorkInv, EditOnScreen
<1>11. ASSUME NEW c \in Color, SetPreviewAppearance(c)
       PROVE  WorkInv'
  BY <1>2, <1>11 DEF SetPreviewAppearance, Busy, WorkInv, EditOnScreen
<1>12. CASE ConfirmApply
  <2> DEFINE r == [area |-> selectedArea, slot |-> targetSlot,
                   tattoo |-> previewTattoo, color |-> previewColor]
  <2>1. r \in Request("apply")
    BY <1>0, <1>12, RequestsTyped DEF ConfirmApply, ModelType
  <2>2. Issue("apply", r, pending, active) /\ UNCHANGED <<selectedArea, choiceVars>>
    BY <1>12 DEF ConfirmApply
  <2>3. Fresh("apply") /\ pending'["apply"].request = r
        /\ \A l \in Kind \ {"apply"} : Untouched(l)
    BY <1>0, <1>1, <2>1, <2>2, IssueEffect, Kinds DEF Untouched
  <2>4. ShownBy("apply", pending["apply"].request)'
    BY <2>2, <2>3 DEF ShownBy
  <2>5. screen \notin Busy /\ screen' = BusyScreen("apply") /\ EditOnScreen'
    BY <1>12, Kinds DEF ConfirmApply, Busy, WorkInv, EditOnScreen
  <2> QED
    BY <1>0, <2>3, <2>4, <2>5, ConfirmStep, Kinds
<1>13. ASSUME NEW c \in Color, SetEditedAppearance(c)
       PROVE  WorkInv'
  BY <1>2, <1>13 DEF SetEditedAppearance, Busy, EditOnScreen
<1>14. CASE CancelEditAppearance
  BY <1>2, <1>14 DEF CancelEditAppearance, Busy, EditOnScreen
<1>15. CASE ConfirmAppearanceUpdate
  <2> DEFINE r == [handle |-> edit.handle, color |-> edit.edited, mode |-> edit.mode]
  <2>1. edit \in EditSession /\ edit # None
    BY <1>0, <1>15 DEF ConfirmAppearanceUpdate, CanSaveAppearance, ModelType
  <2>2. r \in Request("appearance")
    BY <2>1, RequestsTyped DEF EditSession
  <2>3. Issue("appearance", r, pending, active) /\ UNCHANGED edit
    BY <1>15 DEF ConfirmAppearanceUpdate
  <2>4. Fresh("appearance") /\ pending'["appearance"].request = r
        /\ \A l \in Kind \ {"appearance"} : Untouched(l)
    BY <1>0, <1>1, <2>2, <2>3, IssueEffect, Kinds DEF Untouched
  <2>5. ShownBy("appearance", pending["appearance"].request)'
    BY <2>1, <2>3, <2>4 DEF ShownBy
  <2>6. screen \notin Busy /\ screen' = BusyScreen("appearance") /\ EditOnScreen'
    BY <1>15, Kinds DEF ConfirmAppearanceUpdate, CanSaveAppearance, Busy, EditOnScreen
  <2> QED
    BY <1>0, <2>4, <2>5, <2>6, ConfirmStep, Kinds
<1>16. CASE SlotActionsGesture
  <2>1. screen = "slotActions" => screen \notin Busy
    BY DEF Busy
  <2> QED
    BY <1>4, <1>5, <1>6, <1>7, <1>8, <1>9, <1>16, <2>1 DEF SlotActionsGesture
<1>17. CASE PickerGesture
  <2>1. screen \notin Busy
    BY <1>17 DEF PickerGesture, Busy
  <2> QED
    BY <1>4, <1>10, <1>17, <2>1 DEF PickerGesture
<1>18. CASE PreviewGesture
  <2>1. screen = "preview" => screen \notin Busy
    BY DEF Busy
  <2> QED
    BY <1>4, <1>11, <1>12, <1>18, <2>1 DEF PreviewGesture, CancelPreview
<1>19. CASE EditGesture
  BY <1>13, <1>14, <1>15, <1>19 DEF EditGesture
<1> QED
  BY <1>3, <1>16, <1>17, <1>18, <1>19 DEF Gesture

-----------------------------------------------------------------------------
(* Steps of the coordinator                                                *)

\* pump hands a ticket to a task.
LEMMA ScheduleStep ==
  ASSUME TypeOK, WorkInv, NEW k \in Kind, Taken(k), task = None, Schedule(k)
  PROVE  WorkInv'
<1> USE DEF browseVars, choiceVars
<1>1. pending[k] # None /\ pending[k] \in Ticket(k) /\ pending \in [Kind -> OptionalOf(AnyTicket)]
  BY DEF Taken, TypeOK
<1>2. /\ task' # None /\ task'.kind = k /\ task'.ticket = pending[k]
      /\ pending'[k] = None
      /\ \A l \in Kind \ {k} : pending'[l] = pending[l]
      /\ active' = active
  BY <1>1, NewTask DEF Schedule
<1>3. TicketsIssued'
  <2>1. ASSUME NEW l \in Kind, pending'[l] # None
        PROVE  pending'[l].gen # 0
    BY <1>2, <2>1 DEF WorkInv, TicketsIssued
  <2> QED
    BY <1>1, <1>2, <2>1 DEF TicketsIssued, WorkInv
<1>4. MutationAwaited'
  BY <1>1, <1>2, Kinds DEF WorkInv, MutationAwaited
<1>5. TicketLive'
  <2>1. ASSUME NEW l \in Kind, active'[l] # 0
        PROVE  \/ pending'[l] # None /\ pending'[l].gen = active'[l]
               \/ task' # None /\ task'.kind = l /\ task'.ticket.gen = active'[l]
    BY <1>2, <2>1 DEF WorkInv, TicketLive
  <2> QED
    BY <2>1 DEF TicketLive
<1>6. BusyScreenHasOperation'
  BY <1>2 DEF WorkInv, BusyScreenHasOperation, Schedule
<1>7. ShownIsExecuted'
  <2>1. ASSUME NEW l \in Mutation, active'[l] # 0
        PROVE  ShownBy(l, OutstandingTicket(l).request)'
    <3>1. ShownBy(l, OutstandingTicket(l).request)
      BY <1>2, <2>1 DEF WorkInv, ShownIsExecuted
    <3>2. pending[l] # None
      BY <1>2, <2>1, Kinds DEF WorkInv, TicketLive
    <3>3. OutstandingTicket(l)' = OutstandingTicket(l)
      BY <1>2, <3>2, Kinds DEF OutstandingTicket
    <3> QED
      BY <3>1, <3>3 DEF ShownBy, Schedule
  <2> QED
    BY <2>1 DEF ShownIsExecuted
<1>8. EditOnScreen'
  BY DEF WorkInv, EditOnScreen, Schedule
<1> QED
  BY <1>3, <1>4, <1>5, <1>6, <1>7, <1>8 DEF WorkInv

\* A completion is dropped, or handled by the function of its kind.
LEMMA CompleteCases ==
  ASSUME NEW k \in Kind, NEW ticket, NEW result, NEW p,
         Complete(k, ticket, result, p)
  PROVE  \/ Superseded(k, ticket, p)
         \/ k = "query" /\ CompleteSlotQuery(ticket.request.area, result, p)
         \/ k = "apply" /\ CompleteApply(result, p)
         \/ k = "remove" /\ CompleteRemove(result, p)
         \/ k = "appearance" /\ CompleteAppearanceUpdate(result, p)
BY DEF Complete, Kind

\* A ticket completes, because its task ended or was refused.  p is the table
\* without it; no other ticket is in a task.
LEMMA CompleteStep ==
  ASSUME TypeOK, WorkInv, NEW k \in Kind, NEW ticket \in Ticket(k), ticket.gen # 0,
         NEW result \in Results(k, ticket.request),
         NEW p, PendingType(p),
         \A l \in Kind \ {k} : p[l] = pending[l],
         p[k] # None => p[k] = pending[k],
         task # None => task.kind = k,
         active[k] # 0 /\ active[k] # ticket.gen => p[k] # None /\ p[k].gen = active[k],
         k \in Mutation => p[k] = None /\ active[k] = ticket.gen,
         Complete(k, ticket, result, p), task' = None
  PROVE  WorkInv'
<1> USE DEF browseVars, choiceVars
<1>0. ModelType /\ active \in [Kind -> Nat]
  BY TypeOKParts DEF ModelType
<1>1. \A l \in Kind : p[l] # None => p[l].gen # 0
  BY DEF WorkInv, TicketsIssued
<1>2. \A l \in Kind \ {k} : active[l] # 0 => p[l] # None /\ p[l].gen = active[l]
  BY DEF WorkInv, TicketLive
<1>3. CASE k = "query" /\ pending' = p
           /\ ((active' = active /\ active[k] # ticket.gen) \/ active' = Retired(k))
           /\ UNCHANGED <<screen, selectedArea, choiceVars>>
  <2>1. \A l \in Mutation : active'[l] = active[l] /\ pending'[l] = pending[l]
    BY <1>0, <1>3, Kinds DEF Retired
  <2>2. active'[k] # 0 => pending'[k] # None /\ pending'[k].gen = active'[k]
    BY <1>0, <1>3 DEF Retired
  <2>3. TicketsIssued' /\ MutationAwaited'
    BY <1>1, <1>3, <2>1, Kinds DEF WorkInv, TicketsIssued, MutationAwaited
  <2>4. TicketLive'
    <3>1. ASSUME NEW l \in Kind, active'[l] # 0
          PROVE  pending'[l] # None /\ pending'[l].gen = active'[l]
      BY <1>2, <1>3, <2>1, <2>2, <3>1, Kinds
    <3> QED
      BY <3>1 DEF TicketLive
  <2>5. BusyScreenHasOperation' /\ EditOnScreen'
    BY <1>3, <2>1 DEF WorkInv, BusyScreenHasOperation, EditOnScreen
  <2>6. ShownIsExecuted'
    <3>1. ASSUME NEW l \in Mutation, active'[l] # 0
          PROVE  ShownBy(l, OutstandingTicket(l).request)'
      <4>1. active[l] # 0 /\ pending[l] # None /\ pending'[l] = pending[l]
        BY <1>2, <1>3, <2>1, <3>1, Kinds
      <4>2. ShownBy(l, OutstandingTicket(l).request)
        BY <4>1 DEF WorkInv, ShownIsExecuted
      <4>3. OutstandingTicket(l)' = OutstandingTicket(l)
        BY <4>1 DEF OutstandingTicket
      <4> QED
        BY <1>3, <4>2, <4>3 DEF ShownBy
    <3> QED
      BY <3>1 DEF ShownIsExecuted
  <2> QED
    BY <2>3, <2>4, <2>5, <2>6 DEF WorkInv
<1>4. ASSUME k \in Mutation, screen' \notin Busy, EditOnScreen',
             \/ pending' = p /\ active' = Retired(k)
             \/ ScheduleSlotQuery(selectedArea, p, Retired(k))
      PROVE  WorkInv'
  <2>1. screen = BusyScreen(k)
    BY <1>4 DEF WorkInv, BusyScreenHasOperation
  <2>2. \A l \in Mutation : Retired(k)[l] = 0 /\ p[l] = None
    <3>1. \A l \in Mutation \ {k} : active[l] = 0
      BY <1>4, <2>1, Kinds DEF WorkInv, BusyScreenHasOperation
    <3>2. \A l \in Mutation \ {k} : p[l] = None
      BY <1>1, <3>1, Kinds DEF WorkInv, MutationAwaited
    <3> QED
      BY <1>0, <1>4, <3>1, <3>2, Kinds DEF Retired
  <2>3. Retired(k) \in [Kind -> Nat] /\ Retired(k)["query"] = active["query"]
    BY <1>0, <1>4, Kinds DEF Retired
  <2>4. /\ \A l \in Mutation : active'[l] = 0 /\ pending'[l] = None
        /\ \/ active'["query"] = active["query"] /\ pending'["query"] = p["query"]
           \/ Fresh("query")
    <3>1. CASE pending' = p /\ active' = Retired(k)
      BY <2>2, <2>3, <3>1
    <3>2. CASE ScheduleSlotQuery(selectedArea, p, Retired(k))
      <4>1. selectedArea \in Area
        BY <1>0 DEF ModelType
      <4>2. Fresh("query") /\ \A l \in Mutation : pending'[l] = p[l] /\ active'[l] = Retired(k)[l]
        BY <1>0, <2>3, <3>2, <4>1, QueryEffect
      <4> QED
        BY <2>2, <4>2
    <3> QED
      BY <1>4, <3>1, <3>2
  <2>5. active'["query"] # 0 => pending'["query"] # None /\ pending'["query"].gen = active'["query"]
    BY <1>2, <1>4, <2>4, Kinds DEF Fresh
  <2>6. pending'["query"] # None => pending'["query"].gen # 0
    BY <1>1, <2>4, Kinds DEF Fresh
  <2>7. TicketsIssued' /\ MutationAwaited' /\ TicketLive'
    BY <2>4, <2>5, <2>6, Kinds DEF TicketsIssued, MutationAwaited, TicketLive
  <2>8. BusyScreenHasOperation' /\ ShownIsExecuted'
    BY <1>4, <2>4, Kinds DEF BusyScreenHasOperation, ShownIsExecuted
  <2> QED
    BY <1>4, <2>7, <2>8 DEF WorkInv
<1>5. CASE Superseded(k, ticket, p)
  BY <1>3, <1>5, Kinds DEF Superseded
<1>6. CASE k = "query" /\ CompleteSlotQuery(ticket.request.area, result, p)
  BY <1>3, <1>6 DEF CompleteSlotQuery
<1>7. CASE \/ k = "apply" /\ CompleteApply(result, p)
           \/ k = "remove" /\ CompleteRemove(result, p)
  <2>1. k \in Mutation /\ screen = BusyScreen(k)
    BY <1>7, Kinds DEF WorkInv, BusyScreenHasOperation
  <2>2. edit = None
    BY <1>7, <2>1, Kinds DEF WorkInv, EditOnScreen
  <2>3. edit' = None
    BY <1>7, <2>2 DEF CompleteApply, CompleteRemove
  <2>4. screen' \notin Busy
    BY <1>7 DEF CompleteApply, CompleteRemove, MutationFails, MutationSucceeds, Busy
  <2>5. \/ pending' = p /\ active' = Retired(k)
        \/ ScheduleSlotQuery(selectedArea, p, Retired(k))
    BY <1>7 DEF CompleteApply, CompleteRemove, MutationFails, MutationSucceeds
  <2> QED
    BY <1>4, <2>1, <2>3, <2>4, <2>5 DEF EditOnScreen
<1>8. CASE k = "appearance" /\ CompleteAppearanceUpdate(result, p)
  <2>1. screen' \notin Busy /\ EditOnScreen'
    BY <1>8 DEF CompleteAppearanceUpdate, MutationFails, MutationSucceeds, Busy, EditOnScreen
  <2>2. \/ pending' = p /\ active' = Retired(k)
        \/ ScheduleSlotQuery(selectedArea, p, Retired(k))
    BY <1>8 DEF CompleteAppearanceUpdate, MutationFails, MutationSucceeds
  <2> QED
    BY <1>4, <1>8, <2>1, <2>2, Kinds
<1> QED
  BY <1>5, <1>6, <1>7, <1>8, CompleteCases
\* Every step keeps the work going as it was confirmed.
LEMMA WorkStep ==
  ASSUME TypeOK, WorkInv, [Next]_vars
  PROVE  WorkInv'
<1> USE DEF modelVars, browseVars, choiceVars, ticketVars
<1>0. ModelType /\ RunType /\ PendingType(pending)
  BY TypeOKParts DEF ModelType, PendingType
<1>1. ASSUME UNCHANGED modelVars,
             \/ task' = task
             \/ /\ task # None /\ task' # None
                /\ task'.kind = task.kind /\ task'.ticket = task.ticket
      PROVE  WorkInv'
  BY <1>1, StandStill DEF Untouched
<1>2. CASE Start
  <2>1. ScheduleSlotQuery(selectedArea, pending, active) /\ selectedArea \in Area
        /\ active \in [Kind -> Nat]
    BY <1>0, <1>2 DEF Start, ModelType
  <2>2. Fresh("query") /\ \A l \in Mutation : Untouched(l)
    BY <1>0, <2>1, QueryEffect DEF Untouched
  <2> QED
    BY <1>2, <2>2, StandStill DEF Start
<1>3. CASE ToggleWindow
  BY <1>1, <1>3 DEF ToggleWindow
<1>4. CASE Gesture
  BY <1>4, GestureStep
<1>5. CASE FrameEnds
  BY <1>1, <1>5 DEF FrameEnds
<1>6. CASE Pump
  <2>1. CASE UNCHANGED <<modelVars, task>>
    BY <1>1, <2>1
  <2>2. ASSUME task = None, NEW k \in Kind, Taken(k), SchedulerRejects(k)
        PROVE  WorkInv'
    <3> DEFINE p == [pending EXCEPT ![k] = None]
               result == [error |-> ExceptionError(k, pending[k].request)]
    <3>1. pending[k] \in Ticket(k) /\ pending[k] # None
      BY <1>0, <2>2 DEF Taken, ModelType
    <3>2. result \in Results(k, pending[k].request)
      BY <3>1, RefusalIsResult DEF Ticket
    <3>3. PendingType(p)
      BY <1>0, ForgetType
    <3>4. p[k] = None /\ \A l \in Kind \ {k} : p[l] = pending[l]
      BY <1>0 DEF PendingType
    <3>5. pending[k].gen # 0 /\ (active[k] # 0 => active[k] = pending[k].gen)
      BY <2>2, <3>1 DEF WorkInv, TicketsIssued, TicketLive
    <3>6. k \in Mutation => active[k] = pending[k].gen
      BY <3>1 DEF WorkInv, MutationAwaited
    <3>7. Complete(k, pending[k], result, p) /\ task' = None
      BY <2>2 DEF SchedulerRejects
    <3> HIDE DEF p, result
    <3> QED
      BY <2>2, <3>1, <3>2, <3>3, <3>4, <3>5, <3>6, <3>7, CompleteStep
  <2>3. ASSUME task = None, NEW k \in Kind, Taken(k), Schedule(k)
        PROVE  WorkInv'
    BY <2>3, ScheduleStep
  <2> QED
    BY <1>6, <2>1, <2>2, <2>3 DEF Pump, InFlight
<1>7. ASSUME task # None,
             NEW r \in Results(task.kind, task.ticket.request), TaskReturns(r)
      PROVE  WorkInv'
  <2>1. task \in Task /\ task' = [task EXCEPT !.result = r]
    BY <1>0, <1>7 DEF TaskReturns, RunType
  <2>2. task.kind \in Kind /\ task.ticket.request \in Request(task.kind)
    BY <1>0, <1>7, <2>1 DEF RunType, Task, Ticket
  <2>3. r \in AnyResult
    BY <2>2, ResultShape
  <2>4. task' \in Task /\ task'.kind = task.kind /\ task'.ticket = task.ticket
    BY <2>1, <2>3 DEF Task
  <2>5. task' # None
    BY <2>4, NoneMemberAssumption
  <2> QED
    BY <1>1, <1>7, <2>4, <2>5 DEF TaskReturns
<1>8. CASE TaskCompletes
  <2>1. /\ task # None /\ task.kind \in Kind /\ task.ticket \in Ticket(task.kind)
        /\ task.result \in Results(task.kind, task.ticket.request)
    BY <1>0, <1>8 DEF TaskCompletes, RunType, Task
  <2>2. task.ticket.gen # 0
    BY <2>1 DEF WorkInv, TicketsIssued
  <2>3. active[task.kind] # 0 /\ active[task.kind] # task.ticket.gen =>
          pending[task.kind] # None /\ pending[task.kind].gen = active[task.kind]
    BY <2>1 DEF WorkInv, TicketLive
  <2>4. task.kind \in Mutation =>
          pending[task.kind] = None /\ active[task.kind] = task.ticket.gen
    BY <2>1 DEF WorkInv, MutationAwaited
  <2> QED
    BY <1>0, <1>8, <2>1, <2>2, <2>3, <2>4, CompleteStep DEF TaskCompletes
<1>9. CASE UNCHANGED vars
  BY <1>1, <1>9 DEF vars
<1> QED
  BY <1>2, <1>3, <1>4, <1>5, <1>6, <1>7, <1>8, <1>9 DEF Next, UserStep

-----------------------------------------------------------------------------
(* Pages                                                                   *)

\* A step that keeps the selected area, its page and its slots.
LEMMA PageKept ==
  ASSUME PageInRange, UNCHANGED <<selectedArea, slots, pageIndex>>
  PROVE  PageInRange'
BY DEF PageInRange

\* clampSelectedPage is called wherever the selected area, its slots or its
\* page change.
LEMMA PageStep ==
  ASSUME TypeOK, PageInRange, [Next]_vars
  PROVE  PageInRange'
<1> USE DEF modelVars, browseVars, choiceVars, ticketVars
<1>0. /\ ModelType /\ TypeOK'
      /\ pageIndex \in [Area -> Nat] /\ selectedArea \in Area
      /\ pageIndex' \in [Area -> Nat] /\ selectedArea' \in Area
      /\ \A a \in Area : slots[a] \in OptionalOf(Snapshot(a))
      /\ \A a \in Area : slots'[a] \in OptionalOf(Snapshot(a))
  BY TypeStep, TypeOKParts DEF TypeOK
<1>1. ASSUME NEW k \in Kind, NEW ticket, NEW result, NEW p, Complete(k, ticket, result, p)
      PROVE  PageInRange'
  <2>1. CASE UNCHANGED <<selectedArea, slots, pageIndex>>
    BY <2>1, PageKept
  <2>2. CASE /\ selectedArea' = selectedArea
             /\ pageIndex' = [pageIndex EXCEPT ![selectedArea] =
                                ClampedPage(@, slots'[selectedArea])]
    <3>1. pageIndex'[selectedArea] = ClampedPage(pageIndex[selectedArea], slots'[selectedArea])
      BY <1>0, <2>2
    <3>2. ClampedPage(pageIndex'[selectedArea], slots'[selectedArea]) = pageIndex'[selectedArea]
      BY <1>0, <3>1, ClampedPageType
    <3> QED
      BY <2>2, <3>2 DEF PageInRange, ClampedPage, PageCount
  <2> QED
    BY <1>1, <2>1, <2>2, CompleteCases DEF Superseded, CompleteSlotQuery, CompleteApply,
       CompleteRemove, CompleteAppearanceUpdate
<1>2. ASSUME NEW page \in Nat, TurnSlotPage(page), ClampedPage(page, slots[selectedArea]) = page
      PROVE  PageInRange'
  BY <1>0, <1>2 DEF TurnSlotPage, PageInRange, ClampedPage, PageCount
<1>3. CASE CurrentSlotsGesture
  <2> DEFINE pages == PageCount(slots[selectedArea])
  <2>0. pages \in Nat
    BY <1>0, PageCountNat
  <2>1. CASE RefreshSelectedArea
    BY <2>1, PageKept DEF RefreshSelectedArea
  <2>2. ASSUME NEW a \in Area, SelectArea(a)
        PROVE  PageInRange'
    <3>1. /\ selectedArea' = a /\ slots' = slots
          /\ pageIndex'[a] = ClampedPage(pageIndex[a], slots[a])
      BY <1>0, <2>2 DEF SelectArea
    <3>2. ClampedPage(pageIndex'[a], slots[a]) = pageIndex'[a]
      BY <1>0, <3>1, ClampedPageType
    <3> QED
      BY <3>1, <3>2 DEF PageInRange, ClampedPage, PageCount
  <2>3. CASE PreviousSlotPage
    <3>1. pageIndex[selectedArea] - 1 \in Nat
      BY <1>0, <2>3 DEF PreviousSlotPage
    <3>2. ClampedPage(pageIndex[selectedArea] - 1, slots[selectedArea]) = pageIndex[selectedArea] - 1
      BY <1>0, <2>0, <2>3, <3>1 DEF PreviousSlotPage, PageInRange, ClampedPage
    <3> QED
      BY <1>2, <2>3, <3>1, <3>2 DEF PreviousSlotPage
  <2>4. CASE NextSlotPage
    <3>1. pageIndex[selectedArea] + 1 \in Nat
      BY <1>0
    <3>2. ClampedPage(pageIndex[selectedArea] + 1, slots[selectedArea]) = pageIndex[selectedArea] + 1
      BY <1>0, <2>0, <2>4 DEF NextSlotPage, ClampedPage
    <3> QED
      BY <1>2, <2>4, <3>1, <3>2 DEF NextSlotPage
  <2>5. ASSUME NEW n \in Nat, SetSlotPageNumber(n)
        PROVE  PageInRange'
    <3> DEFINE page == IF n = 0 THEN 0 ELSE n - 1
    <3>1. page \in Nat
      OBVIOUS
    <3> HIDE DEF page
    <3>2. /\ ClampedPage(page, slots[selectedArea]) \in Nat
          /\ ClampedPage(ClampedPage(page, slots[selectedArea]), slots[selectedArea])
               = ClampedPage(page, slots[selectedArea])
      BY <1>0, <3>1, ClampedPageType
    <3>3. TurnSlotPage(ClampedPage(page, slots[selectedArea]))
      BY <2>5 DEF SetSlotPageNumber, page
    <3> QED
      BY <1>2, <3>2, <3>3
  <2>6. ASSUME NEW i \in Slot, SelectSlot(i)
        PROVE  PageInRange'
    BY <2>6, PageKept DEF SelectSlot
  <2>7. 0 .. pages + 1 \subseteq Nat
    BY <2>0
  <2> QED
    BY <1>3, <2>1, <2>2, <2>3, <2>4, <2>5, <2>6, <2>7 DEF CurrentSlotsGesture
<1>4. CASE SlotActionsGesture
  BY <1>4, PageKept DEF SlotActionsGesture, BackToSlots, ReplaceSelectedSlot,
     BeginEditAppearance, RequestRemove, CancelRemove, ConfirmRemove
<1>5. CASE PickerGesture \/ PreviewGesture \/ EditGesture
  BY <1>5, PageKept DEF PickerGesture, PreviewGesture, EditGesture, BackToSlots,
     SelectTattoo, SetPreviewAppearance, CancelPreview, ConfirmApply,
     SetEditedAppearance, CancelEditAppearance, ConfirmAppearanceUpdate
<1>6. CASE Gesture
  BY <1>3, <1>4, <1>5, <1>6 DEF Gesture
<1>7. CASE Start \/ ToggleWindow \/ FrameEnds \/ UNCHANGED vars
  BY <1>7, PageKept DEF Start, ToggleWindow, FrameEnds, vars
<1>8. CASE Pump
  BY <1>1, <1>8, PageKept DEF Pump, Schedule, SchedulerRejects
<1>9. ASSUME NEW r, TaskReturns(r)
      PROVE  PageInRange'
  BY <1>9, PageKept DEF TaskReturns
<1>10. CASE TaskCompletes
  BY <1>0, <1>1, <1>10 DEF TaskCompletes, TypeOK, Task
<1> QED
  BY <1>6, <1>7, <1>8, <1>9, <1>10 DEF Next, UserStep

-----------------------------------------------------------------------------
(* The slot query                                                          *)

\* nextGeneration counts upward.
TicketsOld ==
  /\ \A k \in Kind : pending[k] # None => pending[k].gen <= generation
  /\ task # None => task.ticket.gen <= generation

\* The query in the queue is the one the model waits for, and then the task
\* does not hold it.
QueryAwaited ==
  /\ pending["query"] # None => pending["query"].gen = active["query"]
  /\ task # None /\ task.kind = "query" /\ task.ticket.gen = active["query"] =>
       pending["query"] = None

NothingBeforeStart ==
  ~started => active["query"] = 0 /\ \A a \in Area : slots[a] = None

\* Only the list of slots can be shown for an area that was never answered.
SlotsKnown == screen # "currentSlots" => slots[selectedArea] # None

\* A removal is handed out when no query is left.
RemovalAfterQueries ==
  task # None /\ task.kind = "remove" => active["query"] = 0

\* A change of area supersedes the query of an area still to be loaded.
QueryIsForSelected ==
  slots[selectedArea] = None /\ active["query"] # 0 =>
    OutstandingTicket("query").request.area = selectedArea

ErrorOrQuery ==
  started /\ slots[selectedArea] = None /\ error = None => active["query"] # 0

QueryInv ==
  /\ TicketsOld
  /\ QueryAwaited
  /\ NothingBeforeStart
  /\ SlotsKnown
  /\ RemovalAfterQueries
  /\ QueryIsForSelected
  /\ ErrorOrQuery
  /\ RetryIsRemembered

\* A step that leaves the query and the slots alone.
LEMMA QueryKept ==
  ASSUME TypeOK, WorkInv, QueryInv,
         UNCHANGED <<started, selectedArea, slots>>, Untouched("query"), TicketsOld',
         \/ task' = task
         \/ /\ task # None /\ task' # None
            /\ task'.kind = task.kind /\ task'.ticket = task.ticket
         \/ task' = None /\ (task # None => task.kind # "query"),
         screen' # "currentSlots" => slots[selectedArea] # None,
         error' = None => error = None \/ slots[selectedArea] # None,
         screen' = "removeConfirmation" /\ error' = "synchronizeFailed" =>
           active["query"] = 0
  PROVE  QueryInv'
<1>1. QueryAwaited'
  BY DEF QueryInv, QueryAwaited, Untouched
<1>2. NothingBeforeStart' /\ ErrorOrQuery' /\ RetryIsRemembered'
  BY DEF QueryInv, NothingBeforeStart, ErrorOrQuery, RetryIsRemembered, Untouched
<1>3. SlotsKnown'
  BY DEF SlotsKnown
<1>4. RemovalAfterQueries'
  BY DEF QueryInv, RemovalAfterQueries, Untouched
<1>5. QueryIsForSelected'
  <2> SUFFICES ASSUME slots[selectedArea] = None, active["query"] # 0
               PROVE  OutstandingTicket("query")'.request.area = selectedArea
    BY DEF QueryIsForSelected, Untouched
  <2>1. OutstandingTicket("query").request.area = selectedArea
    BY DEF QueryInv, QueryIsForSelected
  <2>2. OutstandingTicket("query")' = OutstandingTicket("query")
    BY Kinds DEF WorkInv, TicketLive, OutstandingTicket, Untouched
  <2> QED
    BY <2>1, <2>2
<1> QED
  BY <1>1, <1>2, <1>3, <1>4, <1>5 DEF QueryInv

\* scheduleSlotQuery issues the query of the selected area.
LEMMA QueryIssued ==
  ASSUME TypeOK, QueryInv, started',
         task' = task \/ task' = None, task' # None => task'.kind # "remove",
         NEW p, PendingType(p), NEW g \in [Kind -> Nat],
         \A k \in Kind : p[k] # None => p[k] = pending[k],
         selectedArea' \in Area, ScheduleSlotQuery(selectedArea', p, g),
         screen' = "currentSlots"
  PROVE  QueryInv'
<1>0. ModelType /\ generation \in Nat /\ RunType
  BY TypeOKParts DEF ModelType
<1>1. Fresh("query") /\ pending'["query"].request.area = selectedArea' /\ error' = None
  BY <1>0, QueryEffect DEF ScheduleSlotQuery
<1>2. /\ generation' = generation + 1 /\ pending'["query"].gen = generation + 1
      /\ active'["query"] = generation + 1
      /\ \A k \in Mutation : pending'[k] = p[k]
  BY <1>0, QueryEffect
<1>3. \A k \in Kind : pending[k] # None => pending[k].gen \in Nat /\ pending[k].gen <= generation
  BY <1>0 DEF QueryInv, TicketsOld, ModelType, Ticket
<1>4. task # None => task.ticket.gen \in Nat /\ task.ticket.gen <= generation
  BY <1>0 DEF QueryInv, TicketsOld, RunType, Ticket
<1>5. TicketsOld'
  <2>1. ASSUME NEW k \in Kind, pending'[k] # None
        PROVE  pending'[k].gen <= generation'
    BY <1>0, <1>2, <1>3, <2>1, Kinds
  <2>2. task' # None => task'.ticket.gen <= generation'
    BY <1>0, <1>2, <1>4
  <2> QED
    BY <2>1, <2>2 DEF TicketsOld
<1>6. QueryAwaited'
  BY <1>0, <1>1, <1>2, <1>4 DEF QueryAwaited
<1>7. RemovalAfterQueries' /\ ErrorOrQuery' /\ RetryIsRemembered'
  BY <1>1 DEF RemovalAfterQueries, ErrorOrQuery, RetryIsRemembered, Fresh
<1>8. QueryIsForSelected'
  BY <1>1 DEF QueryIsForSelected, OutstandingTicket, Fresh
<1> QED
  BY <1>5, <1>6, <1>7, <1>8 DEF QueryInv, NothingBeforeStart, SlotsKnown

\* A confirmation issues the ticket of a mutation only.
LEMMA ConfirmationOld ==
  ASSUME TypeOK, TicketsOld, NEW k \in Mutation, NEW r \in Request(k),
         Issue(k, r, pending, active), task' = task
  PROVE  Untouched("query") /\ TicketsOld'
<1>0. /\ ModelType /\ RunType /\ PendingType(pending) /\ active \in [Kind -> Nat]
      /\ generation \in Nat
  BY TypeOKParts DEF ModelType, PendingType
<1>1. /\ generation' = generation + 1 /\ pending'[k].gen = generation + 1
      /\ \A l \in Kind \ {k} : pending'[l] = pending[l] /\ active'[l] = active[l]
  BY <1>0, Kinds, IssueEffect
<1>2. \A l \in Kind : pending[l] # None => pending[l].gen \in Nat /\ pending[l].gen <= generation
  BY <1>0 DEF TicketsOld, ModelType, Ticket
<1>3. task # None => task.ticket.gen \in Nat /\ task.ticket.gen <= generation
  BY <1>0 DEF TicketsOld, RunType, Ticket
<1>4. ASSUME NEW l \in Kind, pending'[l] # None
      PROVE  pending'[l].gen <= generation'
  BY <1>0, <1>1, <1>2, <1>4
<1>5. task' # None => task'.ticket.gen <= generation'
  BY <1>0, <1>1, <1>3
<1>6. Untouched("query")
  BY <1>1, Kinds DEF Untouched
<1> QED
  BY <1>4, <1>5, <1>6 DEF TicketsOld

\* A gesture that issues no ticket.
LEMMA QuietGesture ==
  ASSUME TypeOK, WorkInv, QueryInv, UNCHANGED ticketVars, task' = task,
         UNCHANGED <<started, selectedArea, slots>>,
         screen' # "currentSlots" => slots[selectedArea] # None,
         error' = error \/ slots[selectedArea] # None,
         screen' # "removeConfirmation" \/ error' = None
  PROVE  QueryInv'
<1>1. Untouched("query") /\ TicketsOld'
  BY DEF ticketVars, Untouched, QueryInv, TicketsOld
<1> QED
  BY <1>1, QueryKept, NoneAssumption DEF Error

LEMMA QueryGesture ==
  ASSUME TypeOK, WorkInv, QueryInv, Gesture
  PROVE  QueryInv'
<1> USE DEF browseVars, choiceVars, modelVars
<1>0. ModelType /\ task' = task /\ PendingType(pending) /\ active \in [Kind -> Nat]
      /\ selectedArea \in Area
  BY TypeOKParts DEF Gesture, ModelType, PendingType
<1>1. screen # "currentSlots" => slots[selectedArea] # None
  BY DEF QueryInv, SlotsKnown
<1>2. CASE CurrentSlotsGesture
  <2>1. screen = "currentSlots"
    BY <1>2 DEF CurrentSlotsGesture
  <2>2. task # None => task.kind # "remove"
    BY <2>1, IdleScreen, Kinds DEF WorkInv, Busy
  <2>3. CASE RefreshSelectedArea
    BY <1>0, <2>1, <2>2, <2>3, QueryIssued DEF RefreshSelectedArea
  <2>4. ASSUME NEW a \in Area, SelectArea(a)
        PROVE  QueryInv'
    <3> DEFINE p == [pending EXCEPT !["appearance"] = None]
               g == [active EXCEPT !["appearance"] = 0]
    <3>1. PendingType(p) /\ g \in [Kind -> Nat]
      BY <1>0, ForgetType DEF Kind
    <3>2. /\ \A k \in Kind : p[k] # None => p[k] = pending[k]
          /\ p["query"] = pending["query"] /\ g["query"] = active["query"]
      BY <1>0, Kinds DEF PendingType
    <3>3. \/ NeedsQuery(a) /\ ScheduleSlotQuery(a, p, g)
          \/ /\ ~NeedsQuery(a) /\ error' = None
             /\ pending' = p /\ active' = g /\ generation' = generation
      BY <2>4 DEF SelectArea
    <3>4. selectedArea' = a /\ screen' = "currentSlots" /\ started' = started /\ slots' = slots
      BY <2>4 DEF SelectArea
    <3> HIDE DEF p, g
    <3>5. CASE NeedsQuery(a) /\ ScheduleSlotQuery(a, p, g)
      BY <1>0, <2>2, <3>1, <3>2, <3>4, <3>5, QueryIssued DEF NeedsQuery
    <3>6. CASE ~NeedsQuery(a) /\ pending' = p /\ active' = g /\ generation' = generation
      <4>1. Untouched("query")
        BY <3>2, <3>6 DEF Untouched
      <4>2. TicketsOld'
        BY <1>0, <3>2, <3>6 DEF QueryInv, TicketsOld
      <4>3. started => slots[a] # None
        BY <3>6 DEF NeedsQuery
      <4>4. ~started => active["query"] = 0
        BY DEF QueryInv, NothingBeforeStart
      <4>5. QueryAwaited' /\ NothingBeforeStart' /\ RemovalAfterQueries'
        BY <1>0, <3>4, <4>1 DEF QueryInv, QueryAwaited, NothingBeforeStart,
           RemovalAfterQueries, Untouched
      <4>6. QueryIsForSelected' /\ ErrorOrQuery' /\ SlotsKnown' /\ RetryIsRemembered'
        BY <3>4, <4>1, <4>3, <4>4 DEF QueryIsForSelected, ErrorOrQuery, SlotsKnown,
           RetryIsRemembered, Untouched
      <4> QED
        BY <4>2, <4>5, <4>6 DEF QueryInv
    <3> QED
      BY <3>3, <3>5, <3>6
  <2>5. ASSUME NEW page, TurnSlotPage(page)
        PROVE  QueryInv'
    BY <1>0, <2>1, <2>5, QuietGesture DEF TurnSlotPage
  <2>6. ASSUME NEW i \in Slot, SelectSlot(i)
        PROVE  QueryInv'
    BY <1>0, <2>6, QuietGesture DEF SelectSlot
  <2> QED
    BY <1>2, <2>3, <2>4, <2>5, <2>6 DEF CurrentSlotsGesture, PreviousSlotPage,
       NextSlotPage, SetSlotPageNumber
<1>3. CASE screen # "currentSlots" /\ BackToSlots
  BY <1>0, <1>1, <1>3, QuietGesture DEF BackToSlots
<1>4. CASE ReplaceSelectedSlot
  BY <1>0, <1>1, <1>4, QuietGesture DEF ReplaceSelectedSlot, OpenPicker
<1>5. CASE BeginEditAppearance
  BY <1>0, <1>1, <1>5, QuietGesture DEF BeginEditAppearance
<1>6. CASE RequestRemove \/ CancelRemove
  BY <1>0, <1>1, <1>6, QuietGesture DEF RequestRemove, CancelRemove
<1>7. CASE ConfirmRemove
  <2> DEFINE r == [area |-> selectedArea, slot |-> targetSlot, mode |-> RemoveMode]
  <2>1. r \in Request("remove")
    BY <1>0, <1>7, RequestsTyped DEF ConfirmRemove, ModelType, RemoveMode, Mode
  <2>2. Issue("remove", r, pending, active)
    BY <1>7 DEF ConfirmRemove
  <2> HIDE DEF r
  <2>3. Untouched("query") /\ TicketsOld'
    BY <1>0, <2>1, <2>2, Kinds, ConfirmationOld DEF QueryInv
  <2> QED
    BY <1>0, <1>1, <1>7, <2>3, QueryKept DEF ConfirmRemove
<1>8. ASSUME NEW t \in Tattoo, SelectTattoo(t)
      PROVE  QueryInv'
  BY <1>0, <1>1, <1>8, QuietGesture DEF SelectTattoo
<1>9. ASSUME NEW c \in Color, SetPreviewAppearance(c)
      PROVE  QueryInv'
  BY <1>0, <1>1, <1>9, QuietGesture DEF SetPreviewAppearance
<1>10. CASE ConfirmApply
  <2> DEFINE r == [area |-> selectedArea, slot |-> targetSlot,
                   tattoo |-> previewTattoo, color |-> previewColor]
  <2>1. r \in Request("apply")
    BY <1>0, <1>10, RequestsTyped DEF ConfirmApply, ModelType
  <2>2. Issue("apply", r, pending, active)
    BY <1>10 DEF ConfirmApply
  <2> HIDE DEF r
  <2>3. Untouched("query") /\ TicketsOld'
    BY <1>0, <2>1, <2>2, Kinds, ConfirmationOld DEF QueryInv
  <2> QED
    BY <1>0, <1>1, <1>10, <2>3, QueryKept DEF ConfirmApply
<1>11. ASSUME NEW c \in Color, SetEditedAppearance(c)
       PROVE  QueryInv'
  BY <1>0, <1>1, <1>11, QuietGesture DEF SetEditedAppearance
<1>12. CASE CancelEditAppearance
  BY <1>0, <1>1, <1>12, QuietGesture DEF CancelEditAppearance
<1>13. CASE ConfirmAppearanceUpdate
  <2> DEFINE r == [handle |-> edit.handle, color |-> edit.edited, mode |-> edit.mode]
  <2>1. edit \in EditSession
    BY <1>0, <1>13 DEF ConfirmAppearanceUpdate, CanSaveAppearance, ModelType
  <2>2. r \in Request("appearance")
    BY <2>1, RequestsTyped DEF EditSession
  <2>3. Issue("appearance", r, pending, active)
    BY <1>13 DEF ConfirmAppearanceUpdate
  <2> HIDE DEF r
  <2>4. Untouched("query") /\ TicketsOld'
    BY <1>0, <2>2, <2>3, Kinds, ConfirmationOld DEF QueryInv
  <2> QED
    BY <1>0, <1>1, <1>13, <2>4, QueryKept DEF ConfirmAppearanceUpdate, CanSaveAppearance
<1>14. CASE SlotActionsGesture
  BY <1>3, <1>4, <1>5, <1>6, <1>7, <1>14 DEF SlotActionsGesture
<1>15. CASE PickerGesture
  BY <1>3, <1>8, <1>15 DEF PickerGesture
<1>16. CASE PreviewGesture
  BY <1>3, <1>9, <1>10, <1>16 DEF PreviewGesture, CancelPreview
<1>17. CASE EditGesture
  BY <1>11, <1>12, <1>13, <1>17 DEF EditGesture
<1> QED
  BY <1>2, <1>14, <1>15, <1>16, <1>17 DEF Gesture

\* A query ends, because its task ended or was refused.
LEMMA QueryEnds ==
  ASSUME TypeOK, WorkInv, QueryInv,
         NEW ticket \in Ticket("query"), ticket.gen # 0,
         NEW result \in Results("query", ticket.request), NEW p,
         \A k \in Mutation : p[k] = pending[k],
         \/ task # None /\ task.kind = "query" /\ task.ticket = ticket /\ p = pending
         \/ task = None /\ pending["query"] = ticket /\ p["query"] = None,
         Complete("query", ticket, result, p), task' = None
  PROVE  QueryInv'
<1> USE DEF browseVars, choiceVars
<1>0. /\ ModelType /\ active \in [Kind -> Nat] /\ "query" \in Kind /\ ticket # None
      /\ slots \in [Area -> OptionalOf(AnySnapshot)] /\ selectedArea \in Area
      /\ ticket.request.area \in Area
  BY TypeOKParts, Kinds, TicketIsTicket DEF ModelType, Ticket, Request
<1>1. result.error = None => result.slots # None
  BY <1>0, ResultShape, NoneRecordAssumption DEF AnySnapshot, Ticket
<1>2. pending' = p /\ generation' = generation /\ started' = started
      /\ selectedArea' = selectedArea /\ screen' = screen
  BY Kinds, CompleteCases DEF Superseded, CompleteSlotQuery
<1>3. TicketsOld'
  <2>1. ASSUME NEW k \in Kind, p[k] # None
        PROVE  p[k] = pending[k]
    BY <2>1, Kinds
  <2> QED
    BY <1>2, <2>1 DEF QueryInv, TicketsOld
<1>4. RemovalAfterQueries'
  BY DEF RemovalAfterQueries
<1>5. CASE Superseded("query", ticket, p)
  <2>1. active["query"] # ticket.gen /\ active' = active /\ slots' = slots /\ error' = error
    BY <1>5 DEF Superseded
  <2>2. p = pending
    BY <1>0, <2>1 DEF QueryInv, QueryAwaited
  <2>3. active["query"] # 0 => pending["query"] # None
    BY <1>0, <2>1 DEF WorkInv, TicketLive
  <2>4. QueryAwaited'
    BY <1>2, <2>1, <2>2 DEF QueryInv, QueryAwaited
  <2>5. NothingBeforeStart' /\ SlotsKnown' /\ ErrorOrQuery' /\ RetryIsRemembered'
    BY <1>2, <2>1 DEF QueryInv, NothingBeforeStart, SlotsKnown, ErrorOrQuery,
       RetryIsRemembered
  <2>6. QueryIsForSelected'
    BY <1>2, <2>1, <2>2, <2>3 DEF QueryInv, QueryIsForSelected, OutstandingTicket
  <2> QED
    BY <1>3, <1>4, <2>4, <2>5, <2>6 DEF QueryInv
<1>6. CASE active["query"] = ticket.gen /\ CompleteSlotQuery(ticket.request.area, result, p)
  <2>1. active'["query"] = 0 /\ error' = result.error
    BY <1>0, <1>6 DEF CompleteSlotQuery, Retired
  <2>2. p["query"] = None
    BY <1>6 DEF QueryInv, QueryAwaited
  <2>3. started
    BY <1>6 DEF QueryInv, NothingBeforeStart
  <2>4. slots[selectedArea] = None => ticket.request.area = selectedArea
    BY <1>0, <1>6, <2>2 DEF QueryInv, QueryIsForSelected, OutstandingTicket
  <2>5. CASE result.error # None /\ slots' = slots
    BY <1>2, <1>3, <1>4, <2>1, <2>2, <2>3, <2>5 DEF QueryInv, QueryAwaited,
       NothingBeforeStart, SlotsKnown, QueryIsForSelected, ErrorOrQuery, RetryIsRemembered
  <2>6. CASE result.error = None /\ slots' = [slots EXCEPT ![ticket.request.area] = result.slots]
    <3>1. slots'[selectedArea] # None
      BY <1>0, <1>1, <2>4, <2>6
    <3> QED
      BY <1>2, <1>3, <1>4, <2>1, <2>2, <2>3, <3>1 DEF QueryInv, QueryAwaited,
         NothingBeforeStart, SlotsKnown, QueryIsForSelected, ErrorOrQuery, RetryIsRemembered
  <2> QED
    BY <1>6, <2>5, <2>6 DEF CompleteSlotQuery
<1> QED
  BY <1>5, <1>6 DEF Complete

\* A mutation ends, with an error or with a query of the selected area.
LEMMA MutationEnds ==
  ASSUME TypeOK, WorkInv, QueryInv, NEW k \in Mutation, NEW ticket, NEW result, NEW p,
         PendingType(p), active[k] = ticket.gen, active[k] # 0,
         \A l \in Kind : p[l] # None => p[l] = pending[l],
         p["query"] = pending["query"],
         k = "remove" => active["query"] = 0,
         task # None => task.kind = k,
         Complete(k, ticket, result, p), task' = None
  PROVE  QueryInv'
<1> USE DEF browseVars, choiceVars
<1>0. /\ ModelType /\ active \in [Kind -> Nat] /\ k \in Kind /\ k # "query"
      /\ selectedArea \in Area /\ Retired(k) \in [Kind -> Nat]
      /\ Retired(k)["query"] = active["query"]
  BY TypeOKParts, Kinds DEF ModelType, Retired
<1>1. screen = BusyScreen(k) /\ slots[selectedArea] # None
  BY Kinds DEF WorkInv, BusyScreenHasOperation, QueryInv, SlotsKnown, Busy
<1>2. UNCHANGED <<started, selectedArea, slots>>
  BY <1>0, CompleteCases DEF Superseded, CompleteApply, CompleteRemove,
     CompleteAppearanceUpdate
<1>3. \/ \E s : MutationFails(k, result, p, s) /\ (s = "removeConfirmation" => k = "remove")
      \/ MutationSucceeds(k, result, p)
  BY <1>0, CompleteCases DEF Superseded, CompleteApply, CompleteRemove,
     CompleteAppearanceUpdate
<1>4. CASE \E s : MutationFails(k, result, p, s) /\ (s = "removeConfirmation" => k = "remove")
  <2>1. /\ pending' = p /\ active' = Retired(k) /\ generation' = generation
        /\ screen' = "removeConfirmation" => k = "remove"
    BY <1>4 DEF MutationFails
  <2>2. Untouched("query") /\ TicketsOld'
    BY <1>0, <2>1 DEF Untouched, QueryInv, TicketsOld
  <2> QED
    BY <1>0, <1>1, <1>2, <2>1, <2>2, QueryKept
<1>5. CASE MutationSucceeds(k, result, p)
  <2>1. started
    BY <1>0, <1>1 DEF QueryInv, NothingBeforeStart
  <2> QED
    BY <1>0, <1>2, <1>5, <2>1, QueryIssued DEF MutationSucceeds
<1> QED
  BY <1>3, <1>4, <1>5

\* pump hands out a removal only when no query is left.
LEMMA QueryScheduled ==
  ASSUME TypeOK, WorkInv, QueryInv, NEW k \in Kind, Taken(k), task = None, Schedule(k)
  PROVE  QueryInv'
<1> USE DEF browseVars, choiceVars
<1>1. pending[k] # None /\ pending[k] \in Ticket(k) /\ pending \in [Kind -> OptionalOf(AnyTicket)]
  BY DEF Taken, TypeOK
<1>2. /\ task' # None /\ task'.kind = k /\ task'.ticket = pending[k]
      /\ pending'[k] = None
      /\ \A l \in Kind \ {k} : pending'[l] = pending[l]
      /\ UNCHANGED <<active, generation, started, selectedArea, slots, screen, error>>
  BY <1>1, NewTask DEF Schedule
<1>3. TicketsOld'
  <2>1. ASSUME NEW l \in Kind, pending'[l] # None
        PROVE  pending'[l].gen <= generation'
    BY <1>2, <2>1 DEF QueryInv, TicketsOld
  <2>2. task'.ticket.gen <= generation'
    BY <1>1, <1>2 DEF QueryInv, TicketsOld
  <2> QED
    BY <2>1, <2>2 DEF TicketsOld
<1>4. QueryAwaited'
  BY <1>1, <1>2, Kinds DEF QueryInv, QueryAwaited
<1>5. NothingBeforeStart' /\ SlotsKnown' /\ ErrorOrQuery' /\ RetryIsRemembered'
  BY <1>2 DEF QueryInv, NothingBeforeStart, SlotsKnown, ErrorOrQuery, RetryIsRemembered
<1>6. k # "query" => pending["query"] = None /\ active["query"] = 0
  BY Kinds DEF Taken, Before, WorkInv, TicketLive
<1>7. RemovalAfterQueries'
  BY <1>2, <1>6 DEF RemovalAfterQueries
<1>8. QueryIsForSelected'
  <2>1. k = "query" => OutstandingTicket("query")' = OutstandingTicket("query")
    BY <1>1, <1>2 DEF OutstandingTicket
  <2> QED
    BY <1>2, <1>6, <2>1 DEF QueryInv, QueryIsForSelected
<1> QED
  BY <1>3, <1>4, <1>5, <1>7, <1>8 DEF QueryInv

LEMMA QueryStep ==
  ASSUME TypeOK, WorkInv, QueryInv, [Next]_vars
  PROVE  QueryInv'
<1> USE DEF browseVars, choiceVars, modelVars
<1>0. /\ ModelType /\ RunType /\ PendingType(pending) /\ active \in [Kind -> Nat]
      /\ selectedArea \in Area
  BY TypeOKParts DEF ModelType, PendingType
<1>1. ASSUME UNCHANGED modelVars,
             \/ task' = task
             \/ /\ task # None /\ task' # None
                /\ task'.kind = task.kind /\ task'.ticket = task.ticket
      PROVE  QueryInv'
  <2>1. Untouched("query") /\ TicketsOld'
    BY <1>1 DEF ticketVars, Untouched, QueryInv, TicketsOld
  <2>2. /\ screen' # "currentSlots" => slots[selectedArea] # None
        /\ screen' = "removeConfirmation" /\ error' = "synchronizeFailed" =>
             active["query"] = 0
    BY <1>1 DEF QueryInv, SlotsKnown, RetryIsRemembered
  <2> QED
    BY <1>1, <2>1, <2>2, QueryKept
<1>2. CASE Start
  <2>1. screen = "currentSlots"
    BY <1>0, <1>2 DEF Start, QueryInv, NothingBeforeStart, SlotsKnown
  <2>2. task # None => task.kind # "remove"
    BY <2>1, IdleScreen, Kinds DEF WorkInv, Busy
  <2> QED
    BY <1>0, <1>2, <2>1, <2>2, QueryIssued DEF Start
<1>3. CASE ToggleWindow
  BY <1>1, <1>3 DEF ToggleWindow
<1>4. CASE Gesture
  BY <1>4, QueryGesture
<1>5. CASE FrameEnds
  BY <1>1, <1>5 DEF FrameEnds
<1>6. CASE Pump
  <2>1. CASE UNCHANGED <<modelVars, task>>
    BY <1>1, <2>1
  <2>2. ASSUME task = None, NEW k \in Kind, Taken(k), SchedulerRejects(k)
        PROVE  QueryInv'
    <3> DEFINE p == [pending EXCEPT ![k] = None]
               result == [error |-> ExceptionError(k, pending[k].request)]
    <3>1. pending[k] \in Ticket(k) /\ pending[k] # None
      BY <1>0, <2>2 DEF Taken, ModelType
    <3>2. result \in Results(k, pending[k].request)
      BY <3>1, RefusalIsResult DEF Ticket
    <3>3. PendingType(p)
      BY <1>0, ForgetType
    <3>4. p[k] = None /\ \A l \in Kind \ {k} : p[l] = pending[l]
      BY <1>0 DEF PendingType
    <3>5. pending[k].gen # 0
      BY <3>1 DEF WorkInv, TicketsIssued
    <3>6. k \in Mutation => active[k] = pending[k].gen /\ active["query"] = 0
      BY <2>2, <3>1, Kinds DEF Taken, Before, WorkInv, MutationAwaited, TicketLive
    <3>7. Complete(k, pending[k], result, p) /\ task' = None
      BY <2>2 DEF SchedulerRejects
    <3> HIDE DEF p, result
    <3>8. CASE k = "query"
      BY <2>2, <3>1, <3>2, <3>4, <3>5, <3>7, <3>8, Kinds, QueryEnds
    <3>9. CASE k \in Mutation
      BY <2>2, <3>3, <3>4, <3>5, <3>6, <3>7, <3>9, Kinds, MutationEnds
    <3> QED
      BY <3>8, <3>9, Kinds
  <2>3. ASSUME task = None, NEW k \in Kind, Taken(k), Schedule(k)
        PROVE  QueryInv'
    BY <2>3, QueryScheduled
  <2> QED
    BY <1>6, <2>1, <2>2, <2>3 DEF Pump, InFlight
<1>7. ASSUME task # None,
             NEW r \in Results(task.kind, task.ticket.request), TaskReturns(r)
      PROVE  QueryInv'
  <2>1. task \in Task /\ task' = [task EXCEPT !.result = r]
    BY <1>0, <1>7 DEF TaskReturns, RunType
  <2>2. task.kind \in Kind /\ task.ticket.request \in Request(task.kind)
    BY <1>0, <1>7, <2>1 DEF RunType, Task, Ticket
  <2>3. r \in AnyResult
    BY <2>2, ResultShape
  <2>4. task' \in Task /\ task'.kind = task.kind /\ task'.ticket = task.ticket
    BY <2>1, <2>3 DEF Task
  <2>5. task' # None
    BY <2>4, NoneMemberAssumption
  <2> QED
    BY <1>1, <1>7, <2>4, <2>5 DEF TaskReturns
<1>8. CASE TaskCompletes
  <2>1. /\ task # None /\ task.kind \in Kind /\ task.ticket \in Ticket(task.kind)
        /\ task.result \in Results(task.kind, task.ticket.request)
        /\ Complete(task.kind, task.ticket, task.result, pending) /\ task' = None
    BY <1>0, <1>8 DEF TaskCompletes, RunType, Task
  <2>2. task.ticket.gen # 0
    BY <2>1 DEF WorkInv, TicketsIssued
  <2>3. task.kind \in Mutation => active[task.kind] = task.ticket.gen
    BY <2>1 DEF WorkInv, MutationAwaited
  <2>4. task.kind = "remove" => active["query"] = 0
    BY <2>1 DEF QueryInv, RemovalAfterQueries
  <2>5. CASE task.kind = "query"
    BY <2>1, <2>2, <2>5, QueryEnds
  <2>6. CASE task.kind \in Mutation
    BY <1>0, <2>1, <2>2, <2>3, <2>4, <2>6, MutationEnds
  <2> QED
    BY <2>1, <2>5, <2>6, Kinds
<1>9. CASE UNCHANGED vars
  BY <1>1, <1>9 DEF vars, ticketVars
<1> QED
  BY <1>2, <1>3, <1>4, <1>5, <1>6, <1>7, <1>8, <1>9 DEF Next, UserStep

-----------------------------------------------------------------------------
(* The edit session                                                        *)

\* A completion keeps a session that only synchronizes, or ends it.
LEMMA CompleteKeepsSession ==
  ASSUME edit \in EditSession, edit # None, edit.mode = "synchronizeOnly",
         NEW k \in Kind, NEW ticket, NEW result, NEW p, Complete(k, ticket, result, p)
  PROVE  edit' = edit \/ edit' = None
<1> USE DEF choiceVars
<1>1. CASE CompleteAppearanceUpdate(result, p)
  <2>1. NextEditMode(result.error) = "synchronizeOnly"
    BY DEF NextEditMode
  <2>2. [edit EXCEPT !.mode = "synchronizeOnly"] = edit
    BY DEF EditSession
  <2> QED
    BY <1>1, <2>1, <2>2 DEF CompleteAppearanceUpdate
<1> QED
  BY <1>1, CompleteCases DEF Superseded, CompleteSlotQuery, CompleteApply, CompleteRemove

LEMMA SessionStep ==
  ASSUME TypeOK, WorkInv, [Next]_vars,
         edit # None, edit' # None, edit.mode = "synchronizeOnly"
  PROVE  edit' = edit
<1> USE DEF modelVars, browseVars, choiceVars, ticketVars
<1>1. edit \in EditSession /\ screen \in {"editAppearance", "savingAppearance"}
  BY DEF TypeOK, WorkInv, EditOnScreen
<1>2. CASE Gesture
  <2>1. CASE CurrentSlotsGesture \/ PickerGesture \/ SlotActionsGesture \/ PreviewGesture
    BY <1>1, <2>1 DEF CurrentSlotsGesture, PickerGesture, SlotActionsGesture, BackToSlots,
       ReplaceSelectedSlot, BeginEditAppearance, RequestRemove, CancelRemove, ConfirmRemove,
       PreviewGesture, SetPreviewAppearance, CancelPreview, ConfirmApply
  <2>2. CASE EditGesture
    BY <2>2 DEF EditGesture, SetEditedAppearance, CancelEditAppearance, ConfirmAppearanceUpdate
  <2> QED
    BY <1>2, <2>1, <2>2 DEF Gesture
<1>3. CASE Start \/ ToggleWindow \/ FrameEnds \/ UNCHANGED vars
  BY <1>3 DEF Start, ToggleWindow, FrameEnds, vars
<1>4. CASE Pump
  BY <1>1, <1>4, CompleteKeepsSession DEF Pump, Schedule, SchedulerRejects
<1>5. ASSUME NEW r, TaskReturns(r)
      PROVE  edit' = edit
  BY <1>5 DEF TaskReturns
<1>6. CASE TaskCompletes
  <2>1. task.kind \in Kind
    BY <1>6 DEF TaskCompletes, TypeOK, Task
  <2> QED
    BY <1>1, <1>6, <2>1, CompleteKeepsSession DEF TaskCompletes
<1> QED
  BY <1>2, <1>3, <1>4, <1>5, <1>6 DEF Next, UserStep

-----------------------------------------------------------------------------
(* The theorems                                                            *)

\* The inductive invariant of the workflow.
IInv == TypeOK /\ WorkInv /\ QueryInv /\ PageInRange

LEMMA InvInit == Init => IInv
<1> SUFFICES ASSUME Init
             PROVE  IInv
  OBVIOUS
<1>1. TypeOK
  BY TypeInit
<1>2. WorkInv
  BY Kinds DEF Init, WorkInv, TicketsIssued, MutationAwaited, TicketLive,
     BusyScreenHasOperation, ShownIsExecuted, EditOnScreen, Busy
<1>3. PageInRange
  BY FirstAreaAssumption DEF Init, PageInRange, ClampedPage, PageCount
<1>4. QueryInv
  BY Kinds, NoneAssumption DEF Init, QueryInv, TicketsOld, QueryAwaited, NothingBeforeStart,
     SlotsKnown, RemovalAfterQueries, QueryIsForSelected, ErrorOrQuery, RetryIsRemembered
<1> QED
  BY <1>1, <1>2, <1>3, <1>4 DEF IInv

LEMMA InvStep == IInv /\ [Next]_vars => IInv'
BY TypeStep, WorkStep, QueryStep, PageStep DEF IInv

\* The inductive invariant of the workflow.
THEOREM Invariant == Spec => []IInv
BY InvInit, InvStep, PTL DEF Spec

\* No ticket the model waits for is lost.
THEOREM TicketsLive == Spec => []TicketLive
BY Invariant, PTL DEF IInv, WorkInv

\* A busy screen is shown exactly while its operation is outstanding.
THEOREM BusyScreens == Spec => []BusyScreenHasOperation
BY Invariant, PTL DEF IInv, WorkInv

\* What is executed is what the screen shows.
THEOREM ShownExecuted == Spec => []ShownIsExecuted
BY Invariant, PTL DEF IInv, WorkInv

\* While a removal waits to be retried no query can overwrite the error that
\* remembers why.
THEOREM RetryRemembered == Spec => []RetryIsRemembered
BY Invariant, PTL DEF IInv, QueryInv

\* An area without a snapshot has an error to show, or its query is on its way.
THEOREM LoadingReal == Spec => []LoadingIsReal
<1>1. IInv => LoadingIsReal
  BY DEF IInv, QueryInv, ErrorOrQuery, QueryIsForSelected, LoadingIsReal
<1> QED
  BY <1>1, Invariant, PTL

\* The page of the selected area exists.
THEOREM PagesInRange == Spec => []PageInRange
BY Invariant, PTL DEF IInv
\* An edit session whose synchronization failed keeps what it wrote and keeps
\* to synchronizing until it ends.
THEOREM SessionSticks == Spec => SynchronizeOnlySticks
<1>1. IInv /\ [Next]_vars =>
        [edit # None /\ edit' # None /\ edit.mode = "synchronizeOnly"
           => edit' = edit]_vars
  BY SessionStep DEF IInv
<1> QED
  BY <1>1, Invariant, PTL DEF Spec, SynchronizeOnlySticks
-----------------------------------------------------------------------------
(* The protocol of confirmed mutations                                     *)

\* What the abstract state is, screen by screen.
AbstractShape ==
  /\ screen \notin Busy => AbstractPhase = "idle" /\ AbstractMutation = None
  /\ \A k \in Mutation : screen = BusyScreen(k) =>
       \/ /\ task # None /\ task.kind = k
          /\ AbstractPhase = "running"
          /\ AbstractMutation = [kind |-> k, request |-> task.ticket.request]
       \/ /\ ~(task # None /\ task.kind = k)
          /\ pending[k] # None
          /\ AbstractPhase = "confirmed"
          /\ AbstractMutation = [kind |-> k, request |-> pending[k].request]

LEMMA AbstractState == WorkInv => AbstractShape
<1> SUFFICES ASSUME WorkInv
             PROVE  AbstractShape
  OBVIOUS
<1>1. ASSUME NEW k \in Mutation, active[k] = 0
      PROVE  k \notin Asked /\ k \notin Running
  BY <1>1, Kinds DEF WorkInv, TicketsIssued, MutationAwaited, Asked, Running
<1>2. Asked \subseteq Mutation /\ Running \subseteq Mutation
  BY DEF Asked, Running
<1>3. CASE screen \notin Busy
  <2>1. \A k \in Mutation : active[k] = 0
    BY <1>3, IdleScreen DEF WorkInv
  <2>2. Asked = {} /\ Running = {}
    BY <1>1, <1>2, <2>1
  <2> QED
    BY <1>3, <2>2, Kinds DEF AbstractPhase, AbstractMutation, AbstractShape
<1>4. ASSUME NEW k \in Mutation, screen = BusyScreen(k)
      PROVE  \/ /\ task # None /\ task.kind = k
                /\ AbstractPhase = "running"
                /\ AbstractMutation = [kind |-> k, request |-> task.ticket.request]
             \/ /\ ~(task # None /\ task.kind = k)
                /\ pending[k] # None
                /\ AbstractPhase = "confirmed"
                /\ AbstractMutation = [kind |-> k, request |-> pending[k].request]
  <2>1. active[k] # 0 /\ \A l \in Mutation \ {k} : active[l] = 0
    BY <1>4, Kinds DEF WorkInv, BusyScreenHasOperation
  <2>2. Asked \subseteq {k} /\ Running \subseteq {k}
    BY <1>1, <1>2, <2>1
  <2>3. CASE task # None /\ task.kind = k
    <3>1. Running = {k} /\ Running # {}
      BY <2>2, <2>3 DEF Running
    <3> QED
      BY <2>3, <3>1 DEF AbstractPhase, AbstractMutation
  <2>4. CASE ~(task # None /\ task.kind = k)
    <3>1. pending[k] # None
      BY <2>1, <2>4, Kinds DEF WorkInv, TicketLive
    <3>2. Asked = {k} /\ Running = {}
      BY <2>2, <2>4, <3>1 DEF Asked, Running
    <3>3. (CHOOSE j \in Asked : TRUE) = k
      BY <3>2
    <3>4. AbstractPhase = "confirmed"
      BY <3>2 DEF AbstractPhase
    <3>5. AbstractMutation = [kind |-> k, request |-> pending[k].request]
      BY <3>2, <3>3 DEF AbstractMutation
    <3> QED
      BY <2>4, <3>1, <3>4, <3>5
  <2> QED
    BY <2>3, <2>4
<1> QED
  BY <1>3, <1>4 DEF AbstractShape

\* The abstract state depends on the mutations in the queue and in the task.
LEMMA AbstractKept ==
  ASSUME \A k \in Mutation : pending'[k] = pending[k],
         \A k \in Mutation : (task' # None /\ task'.kind = k) <=> (task # None /\ task.kind = k),
         \A k \in Mutation : task # None /\ task.kind = k => task'.ticket = task.ticket
  PROVE  AbstractPhase' = AbstractPhase /\ AbstractMutation' = AbstractMutation
<1>1. Asked' = Asked /\ Running' = Running
  BY DEF Asked, Running
<1>2. AbstractPhase' = AbstractPhase
  BY <1>1 DEF AbstractPhase
<1>3. CASE Running # {}
  <2>1. PICK k \in Mutation : task # None /\ task.kind = k
    BY <1>3 DEF Running
  <2>2. task'.kind = task.kind /\ task'.ticket = task.ticket
    BY <2>1
  <2> QED
    BY <1>1, <1>2, <1>3, <2>2 DEF AbstractMutation
<1>4. CASE Running = {} /\ Asked # {}
  <2>1. (CHOOSE k \in Asked : TRUE) \in Mutation
    BY <1>4 DEF Asked
  <2> QED
    BY <1>1, <1>2, <1>4, <2>1 DEF AbstractMutation
<1>5. CASE Running = {} /\ Asked = {}
  BY <1>1, <1>2, <1>5 DEF AbstractMutation
<1> QED
  BY <1>3, <1>4, <1>5

\* No gesture is offered on a busy screen.
LEMMA GestureIdle ==
  ASSUME WorkInv, Gesture
  PROVE  screen \notin Busy
<1>1. CASE SlotActionsGesture
  BY <1>1 DEF Busy, SlotActionsGesture, ReplaceSelectedSlot, BeginEditAppearance,
     RequestRemove, CancelRemove, ConfirmRemove
<1>2. CASE CurrentSlotsGesture \/ PickerGesture
  BY <1>2 DEF Busy, CurrentSlotsGesture, PickerGesture
<1>3. CASE PreviewGesture
  BY <1>3 DEF Busy, PreviewGesture, SetPreviewAppearance, CancelPreview, ConfirmApply
<1>4. CASE EditGesture
  BY <1>4 DEF Busy, EditGesture, SetEditedAppearance, CancelEditAppearance,
     ConfirmAppearanceUpdate, CanSaveAppearance
<1> QED
  BY <1>1, <1>2, <1>3, <1>4 DEF Gesture

\* A completed mutation leaves its busy screen; a query touches no mutation.
LEMMA CompleteEnds ==
  ASSUME NEW k \in Kind, NEW ticket, NEW result, NEW p,
         k \in Mutation => active[k] = ticket.gen,
         Complete(k, ticket, result, p)
  PROVE  /\ k \in Mutation => screen' \notin Busy
         /\ k = "query" => pending' = p
<1> USE Kinds, CompleteCases
<1>1. CASE k \in Mutation
  BY <1>1 DEF Superseded, CompleteApply, CompleteRemove, CompleteAppearanceUpdate,
     MutationFails, MutationSucceeds, Busy
<1>2. CASE k = "query"
  BY <1>2 DEF Superseded, CompleteSlotQuery
<1> QED
  BY <1>1, <1>2

\* Every step of the workflow is a step of the protocol, or none.
LEMMA ProtocolStep ==
  ASSUME TypeOK, WorkInv, TypeOK', WorkInv', [Next]_vars
  PROVE  [Protocol!Next]_(Protocol!vars)
<1> DEFINE Stutters == AbstractPhase' = AbstractPhase /\ AbstractMutation' = AbstractMutation
<1> USE DEF modelVars, browseVars, choiceVars, ticketVars
<1>a. AbstractShape /\ AbstractShape'
  BY AbstractState, PTL
<1>0. Stutters => [Protocol!Next]_(Protocol!vars)
  BY DEF Protocol!vars
<1>1. ASSUME NEW k \in Mutation, screen = BusyScreen(k), screen' \notin Busy
      PROVE  Protocol!Next
  <2>1. AbstractPhase \in {"confirmed", "running"}
    BY <1>1, <1>a DEF AbstractShape
  <2>2. AbstractPhase' = "idle" /\ AbstractMutation' = None
    BY <1>1, <1>a DEF AbstractShape
  <2> QED
    BY <2>1, <2>2 DEF Protocol!Next, Protocol!End
<1>2. ASSUME \A k \in Mutation : pending'[k] = pending[k], task' = task
      PROVE  Stutters
  BY <1>2, AbstractKept
<1>3. CASE Gesture
  <2>1. screen \notin Busy /\ task' = task
    BY <1>3, GestureIdle DEF Gesture
  <2>2. AbstractPhase = "idle" /\ AbstractMutation = None
    BY <2>1, <1>a DEF AbstractShape
  <2>3. CASE screen' \notin Busy
    <3>1. AbstractPhase' = "idle" /\ AbstractMutation' = None
      BY <2>3, <1>a DEF AbstractShape
    <3> QED
      BY <1>0, <2>2, <3>1
  <2>4. CASE screen' \in Busy
    <3>1. PICK k \in Mutation : screen' = BusyScreen(k)
      BY <2>4, Kinds DEF Busy
    <3>2. ~(task' # None /\ task'.kind = k)
      BY <2>1, IdleScreen DEF WorkInv
    <3>3. /\ pending'[k] # None
          /\ AbstractPhase' = "confirmed"
          /\ AbstractMutation' = [kind |-> k, request |-> pending'[k].request]
      BY <3>1, <3>2, <1>a DEF AbstractShape
    <3>4. pending'[k].request \in Request(k)
      BY <3>3, Kinds DEF TypeOK, Ticket
    <3> QED
      BY <2>2, <3>3, <3>4 DEF Protocol!Next, Protocol!Confirm
  <2> QED
    BY <2>3, <2>4
<1>4. CASE Start
  <2>1. \A k \in Mutation : pending'[k] = pending[k]
    <3>1. /\ ModelType /\ PendingType(pending) /\ active \in [Kind -> Nat]
          /\ selectedArea \in Area
      BY TypeOKParts DEF ModelType, PendingType
    <3>2. ScheduleSlotQuery(selectedArea, pending, active)
      BY <1>4 DEF Start
    <3> QED
      BY <3>1, <3>2, QueryEffect
  <2> QED
    BY <1>0, <1>2, <1>4, <2>1 DEF Start
<1>5. CASE ToggleWindow \/ FrameEnds \/ UNCHANGED vars
  BY <1>0, <1>2, <1>5 DEF ToggleWindow, FrameEnds, vars
<1>6. CASE Pump
  <2>1. CASE UNCHANGED <<modelVars, task>>
    BY <1>0, <1>2, <2>1
  <2>2. ASSUME task = None, NEW k \in Kind, Taken(k), Schedule(k)
        PROVE  [Protocol!Next]_(Protocol!vars)
    <3>1. pending[k] # None /\ pending[k] \in Ticket(k) /\ pending \in [Kind -> OptionalOf(AnyTicket)]
      BY <2>2 DEF Taken, TypeOK
    <3>2. /\ task' # None /\ task'.kind = k /\ task'.ticket = pending[k]
          /\ \A l \in Kind \ {k} : pending'[l] = pending[l]
          /\ screen' = screen
      BY <2>2, <3>1, NewTask DEF Schedule
    <3>3. CASE k = "query"
      <4>1. Stutters
        BY <2>2, <3>2, <3>3, Kinds, AbstractKept
      <4> QED
        BY <1>0, <4>1
    <3>4. CASE k \in Mutation
      <4>1. screen = BusyScreen(k)
        BY <3>1, <3>4, Kinds DEF WorkInv, TicketsIssued, MutationAwaited, BusyScreenHasOperation
      <4>2. /\ AbstractPhase = "confirmed"
            /\ AbstractMutation = [kind |-> k, request |-> pending[k].request]
        BY <2>2, <3>4, <4>1, <1>a DEF AbstractShape
      <4>3. /\ AbstractPhase' = "running"
            /\ AbstractMutation' = [kind |-> k, request |-> task'.ticket.request]
        BY <3>2, <3>4, <4>1, <1>a DEF AbstractShape
      <4> QED
        BY <3>2, <4>2, <4>3 DEF Protocol!Next, Protocol!Run
    <3> QED
      BY <3>3, <3>4, Kinds
  <2>3. ASSUME task = None, NEW k \in Kind, Taken(k), SchedulerRejects(k)
        PROVE  [Protocol!Next]_(Protocol!vars)
    <3> DEFINE p == [pending EXCEPT ![k] = None]
               result == [error |-> ExceptionError(k, pending[k].request)]
    <3>1. pending[k] # None /\ pending \in [Kind -> OptionalOf(AnyTicket)]
      BY <2>3 DEF Taken, TypeOK
    <3>2. Complete(k, pending[k], result, p) /\ task' = task
      BY <2>3 DEF SchedulerRejects
    <3>3. k \in Mutation => active[k] = pending[k].gen /\ screen = BusyScreen(k)
      BY <3>1, Kinds DEF WorkInv, TicketsIssued, MutationAwaited, BusyScreenHasOperation
    <3>4. \A l \in Kind \ {k} : p[l] = pending[l]
      BY <3>1
    <3> HIDE DEF p, result
    <3>5. /\ k \in Mutation => screen' \notin Busy
          /\ k = "query" => pending' = p
      BY <3>2, <3>3, CompleteEnds
    <3> QED
      BY <1>0, <1>1, <1>2, <3>2, <3>3, <3>4, <3>5, Kinds
  <2> QED
    BY <1>6, <2>1, <2>2, <2>3 DEF Pump, InFlight
<1>7. ASSUME task # None,
             NEW r \in Results(task.kind, task.ticket.request), TaskReturns(r)
      PROVE  [Protocol!Next]_(Protocol!vars)
  <2>1. /\ task \in Task /\ task.kind \in Kind /\ task.ticket.request \in Request(task.kind)
        /\ task' = [task EXCEPT !.result = r] /\ pending' = pending
    BY <1>7 DEF TaskReturns, TypeOK, Task, Ticket
  <2>2. r \in AnyResult
    BY <2>1, ResultShape
  <2>3. task' \in Task /\ task'.kind = task.kind /\ task'.ticket = task.ticket
    BY <2>1, <2>2 DEF Task
  <2>4. task' # None
    BY <2>3, NoneMemberAssumption
  <2>5. Stutters
    BY <1>7, <2>1, <2>3, <2>4, AbstractKept
  <2> QED
    BY <1>0, <2>5
<1>8. CASE TaskCompletes
  <2>1. /\ task # None /\ task' = None /\ task.kind \in Kind
        /\ Complete(task.kind, task.ticket, task.result, pending)
    BY <1>8 DEF TaskCompletes, TypeOK, Task
  <2>2. task.kind \in Mutation =>
          active[task.kind] = task.ticket.gen /\ screen = BusyScreen(task.kind)
    BY <2>1 DEF WorkInv, TicketsIssued, MutationAwaited, BusyScreenHasOperation
  <2>3. /\ task.kind \in Mutation => screen' \notin Busy
        /\ task.kind = "query" => pending' = pending
    BY <2>1, <2>2, CompleteEnds
  <2>4. CASE task.kind = "query"
    <3>1. Stutters
      BY <2>1, <2>3, <2>4, Kinds, AbstractKept
    <3> QED
      BY <1>0, <3>1
  <2>5. CASE task.kind \in Mutation
    BY <1>1, <2>2, <2>3, <2>5
  <2> QED
    BY <2>1, <2>4, <2>5, Kinds
<1> QED
  BY <1>3, <1>4, <1>5, <1>6, <1>7, <1>8 DEF Next, UserStep

\* The workflow implements the protocol of confirmed mutations: one at a
\* time, at most once, and as confirmed.
THEOREM ImplementsProtocol == Spec => ConfirmedMutationProtocol
<1>1. Init => Protocol!Init
  <2> SUFFICES ASSUME Init
               PROVE  Protocol!Init
    OBVIOUS
  <2>1. WorkInv /\ screen \notin Busy
    BY InvInit DEF IInv, Init, Busy
  <2> QED
    BY <2>1, AbstractState DEF AbstractShape, Protocol!Init
<1>2. IInv /\ IInv' /\ [Next]_vars => [Protocol!Next]_(Protocol!vars)
  BY ProtocolStep DEF IInv
<1> QED
  BY <1>1, <1>2, Invariant, PTL DEF Spec, ConfirmedMutationProtocol, Protocol!Spec
=============================================================================
