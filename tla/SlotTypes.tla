----------------------------- MODULE SlotTypes ------------------------------
(***************************************************************************)
(* The values the slot workflow and the tattoo backend exchange: areas and *)
(* slots, snapshots, requests and their answers (core/TattooModels.h).     *)
(***************************************************************************)
EXTENDS Integers, FiniteSets

CONSTANTS
  Area,           \* overlay areas of the actor (TattooArea)
  SlotCount,      \* [Area -> Nat]: configured overlays per area
  Tattoo,         \* catalog tattoos
  TattooArea,     \* [Tattoo -> Area]: the area a tattoo declares
  Handle,         \* runtime handles of tattoo objects; a slot is managed
                  \* by SlaveTats only if its handle is not 0
  MaxColor,       \* largest visible appearance value; 0..MaxColor stands
                  \* for the pair of a color and an alpha
  RawColor,       \* appearances a query may report, in range or not
  None            \* "no value" of the optional members

ASSUME SlotCountAssumption == SlotCount \in [Area -> Nat]
ASSUME TattooAssumption == TattooArea \in [Tattoo -> Area]
ASSUME ColorAssumption == MaxColor \in Nat /\ RawColor \subseteq Int

OptionalOf(S) == S \cup {None}

Color == 0 .. MaxColor
Slot == UNION {0 .. SlotCount[a] - 1 : a \in Area}

\* The four kinds of ticket, and those that change the actor's tattoos.
Kind == {"query", "apply", "remove", "appearance"}
Mutation == Kind \ {"query"}

\* "update" writes and synchronizes, "synchronizeOnly" retries the second half.
Mode == {"update", "synchronizeOnly"}

\* Of the service error codes the workflow tells only one from the others.
Error == {"failed", "synchronizeFailed"}

(***************************************************************************)
(* What a query reports of one slot, and of the slots of an area.          *)
(***************************************************************************)
Unmanaged == [occupancy: {"empty", "external"}]
Managed == [occupancy: {"slaveTats"}, handle: Handle, color: RawColor]
SlotState == Unmanaged \cup Managed
Snapshot(a) == [0 .. SlotCount[a] - 1 -> SlotState]

Request(kind) ==
  CASE kind = "query"      -> [area: Area]
    [] kind = "apply"      -> [area: Area, slot: Slot, tattoo: Tattoo,
                               color: Color]
    [] kind = "remove"     -> [area: Area, slot: Slot, mode: Mode]
    [] kind = "appearance" -> [handle: Handle, color: RawColor \cup Color,
                               mode: Mode]

\* The answers an operation of a kind can give to a request; a query
\* synchronizes nothing.
Failures(kind) == IF kind = "query" THEN {"failed"} ELSE Error

Results(kind, request) ==
  {[error |-> e] : e \in Failures(kind)} \cup
  (IF kind = "query"
     THEN {[error |-> None, slots |-> s] : s \in Snapshot(request.area)}
     ELSE {[error |-> None]})

\* The error of a task that never ran, or whose operation threw.
ExceptionError(kind, request) ==
  IF kind = "appearance" /\ request.mode = "synchronizeOnly"
    THEN "synchronizeFailed" ELSE "failed"

AnySnapshot == UNION {Snapshot(a) : a \in Area}
AnyRequest == UNION {Request(k) : k \in Kind}
AnyResult == [error: OptionalOf(Error)] \cup [error: {None}, slots: AnySnapshot]

ASSUME NoneAssumption ==
  /\ None \notin Area /\ None \notin Tattoo /\ None \notin Slot
  /\ None \notin Handle /\ None \notin Color /\ None \notin Error
ASSUME NoneRecordAssumption ==
  None \notin AnySnapshot /\ None \notin AnyRequest /\ None \notin AnyResult
=============================================================================
