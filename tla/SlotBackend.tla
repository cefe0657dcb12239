---------------------------- MODULE SlotBackend -----------------------------
(***************************************************************************)
(* The operations behind the slot workflow: SlaveTatsService,              *)
(* SlaveTatsRuntime and updateTattooAppearance, as the calls they make, in *)
(* order, to SlaveTatsNG and JContainers.                                  *)
(*                                                                         *)
(* SlaveTatsNG and JContainers are outside the repository.  Their state is *)
(* modelled by what the code relies on: the slots an actor's tattoos are   *)
(* applied to, the JContainers object of each tattoo, the templates of the *)
(* catalog, the slots other mods took, and a synchronization that shows    *)
(* the stored tattoos only when the actor is marked as updated.  Any call  *)
(* of FailingCall may fail.                                                *)
(*                                                                         *)
(* An operation runs in one task, so other mods act only between two       *)
(* operations; JContainers may hand a released handle to another tattoo.   *)
(***************************************************************************)
EXTENDS SlotTypes

CONSTANTS
  Listed,        \* [Tattoo -> Tattoo]: the first tattoo of the catalog with
                 \* the section and name of the given one
  DefaultColor,  \* [Tattoo -> RawColor]: the appearance of a template
  FailingCall,   \* the calls that may fail
  MaxChanges     \* bound on what other mods do

Call == {"exception", "available", "externalSlots", "queryAvailable", "add", "remove",
         "queryApplied", "writeColor", "writeMaterial", "markUpdated",
         "synchronize"}

ASSUME ListedAssumption ==
  /\ Listed \in [Tattoo -> Tattoo]
  /\ \A t \in Tattoo : Listed[Listed[t]] = Listed[t]
ASSUME DefaultColorAssumption == DefaultColor \in [Tattoo -> RawColor]
ASSUME ReportedAssumption ==
  MaxColor \in RawColor /\ (Color \ {0}) \subseteq RawColor
ASSUME FailingCallAssumption == FailingCall \subseteq Call
ASSUME MaxChangesAssumption == MaxChanges \in Nat

\* The remaining material of a tattoo: its own, or the request's defaults.
Material == {"own", "default"}
Object == [tattoo: OptionalOf(Tattoo), color: RawColor \cup Color,
           material: Material]

\* What a handle names that the actor does not wear: any other object.
Foreign == [tattoo |-> None, color |-> MaxColor, material |-> "own"]

Catalogued(tattoo) ==
  [tattoo |-> tattoo, color |-> DefaultColor[tattoo], material |-> "own"]

Place == {p \in Area \X Slot : p[2] < SlotCount[p[1]]}

Stage == {"entered", "templated", "written", "member", "colored", "marked",
          "answered"}

Operation ==
  [kind: Kind, request: AnyRequest, at: Stage,
   saved: OptionalOf(RawColor \cup Color),
   before: [Place -> OptionalOf(Object)], result: OptionalOf(AnyResult)]

ASSUME OperationAssumption == None \notin Operation /\ None \notin Object

VARIABLES
  applied,   \* [Place -> the handle SlaveTats applied there, or None]
  object,    \* [Handle -> the JContainers object of the handle]
  external,  \* the places with an overlay of another mod
  template,  \* [Tattoo -> the appearance its catalog template holds]
  updated,   \* .SlaveTats.updated of the actor
  overlay,   \* [Place -> the tattoo the game shows there, or None]
  op,        \* the operation that runs: its next call, the appearance the
             \* guard saved, its answer, and what was stored when it began
             \* (a history value)
  changes    \* what other mods did so far

backendVars == <<applied, object, external, template, updated, overlay, op,
                 changes>>
storeVars == <<applied, object>>

\* What a slot shows once it is synchronized.
Shown == [p \in Place |-> IF applied[p] = None THEN None ELSE object[applied[p]]]

AppliedHandles == {applied[p] : p \in Place} \ {None}

\* A zero in the store reads as white.
Reported(color) == IF color = 0 THEN MaxColor ELSE color

SlotReport(place) ==
  IF applied[place] # None
    THEN [occupancy |-> "slaveTats", handle |-> applied[place],
          color |-> Reported(object[applied[place]].color)]
  ELSE [occupancy |-> IF place \in external THEN "external" ELSE "empty"]

\* Mutant: the last slot is left out.
ReportMissesLast(area) ==
  [s \in 0 .. SlotCount[area] - 2 |-> SlotReport(<<area, s>>)]

Report(area) == [s \in 0 .. SlotCount[area] - 1 |-> SlotReport(<<area, s>>)]

\* A handle that is no longer worn may be handed out again.
Released(place) ==
  [h \in Handle |-> IF h = applied[place] THEN Foreign ELSE object[h]]

Wear(place, handle, content) ==
  /\ object' = [Released(place) EXCEPT ![handle] = content]
  /\ applied' = [applied EXCEPT ![place] = handle]

TakeOff(place) ==
  /\ object' = Released(place)
  /\ applied' = [applied EXCEPT ![place] = None]

\* No handle is applied twice, and the other handles name foreign objects.
HandlesDistinct ==
  /\ \A p, q \in Place : applied[p] = applied[q] => p = q \/ applied[p] = None
  /\ \A h \in Handle : object[h].tattoo = None <=> h \notin AppliedHandles

Init ==
  /\ applied \in [Place -> OptionalOf(Handle)]
  /\ object \in [Handle -> {Catalogued(t) : t \in Tattoo} \cup {Foreign}]
  /\ HandlesDistinct
  /\ \A p \in Place : applied[p] # None => TattooArea[object[applied[p]].tattoo] = p[1]
  /\ external \in SUBSET {p \in Place : applied[p] = None}
  /\ template = DefaultColor
  /\ updated = FALSE
  /\ overlay = Shown
  /\ op = None
  /\ changes = 0

-----------------------------------------------------------------------------
(* Starting, failing and answering.                                        *)

Begin(kind, request) ==
  /\ op = None
  /\ op' = [kind |-> kind, request |-> request, at |-> "entered",
            saved |-> None, before |-> Shown, result |-> None]
  /\ UNCHANGED <<storeVars, external, template, updated, overlay, changes>>

At(kind, step) ==
  /\ op # None /\ op.kind = kind /\ op.at = step

Advance(step) == op' = [op EXCEPT !.at = step]
Answer(result) == op' = [op EXCEPT !.at = "answered", !.result = result]
Fail(call, code) == call \in FailingCall /\ Answer([error |-> code])

Target == <<op.request.area, op.request.slot>>
Writes == op.request.mode = "update"
Valid == op.request.color \in Color

\* Mutant: the place is not checked again.
TrustSnapshot == FALSE

\* The slots other mods hold are asked for before each write.
TakenByOthers == Target \in external

\* Mutant: a handle is taken to be current.
TrustHandle == TRUE

\* The handle must still be applied to the actor.
StillApplied == op.request.handle \in AppliedHandles

\* An operation may throw before its first effect.  SlaveTatsService refuses
\* a request while a dependency is missing, the actor may not resolve, and
\* then the slots other mods hold are asked for.
Refuse(kind) ==
  /\ At(kind, "entered")
  /\ \/ Fail("exception", ExceptionError(kind, op.request))
     \/ Fail("available", "failed")
     \/ kind = "appearance" /\ Writes /\ ~Valid /\ Answer([error |-> "failed"])
     \/ /\ \/ kind \in {"query", "apply"}
           \/ kind = "remove" /\ Writes
        /\ Fail("externalSlots", "failed")
     \/ /\ \/ kind = "apply"
           \/ kind = "remove" /\ Writes
        /\ TakenByOthers
        /\ Answer([error |-> "failed"])
  /\ UNCHANGED <<storeVars, external, template, updated, overlay, changes>>

\* querySlots
QuerySlots ==
  /\ At("query", "entered")
  /\ Answer([error |-> None, slots |-> Report(op.request.area)])
  /\ UNCHANGED <<storeVars, external, template, updated, overlay, changes>>

-----------------------------------------------------------------------------
(* applyToSlot                                                             *)

\* Mutant: the appearance of the request is not used.
LeaveTemplate(tattoo, color) == UNCHANGED template

\* Mutant: the template keeps the appearance it lent.
KeepPatched(tattoo) == UNCHANGED template

\* TattooTemplateAppearanceGuard: the template takes the appearance that
\* add_and_get_tattoo copies, and the one it had again when the guard ends.
PatchTemplate(tattoo, color) == template' = [template EXCEPT ![tattoo] = color]

RestoreTemplate(tattoo) == template' = [template EXCEPT ![tattoo] = op.saved]

\* The template is looked up by section and name; it may be missing.
FindTemplate ==
  /\ At("apply", "entered")
  /\ ~TakenByOthers
  /\ \/ /\ Fail("queryAvailable", "failed")
        /\ UNCHANGED template
     \/ /\ PatchTemplate(Listed[op.request.tattoo], op.request.color)
        /\ op' = [op EXCEPT !.at = "templated",
                            !.saved = template[Listed[op.request.tattoo]]]
  /\ UNCHANGED <<storeVars, external, updated, overlay, changes>>

\* SlaveTats puts the tattoo into the slot of its template's own area; the
\* guard restores the template whether or not it did.
AddTattoo ==
  LET chosen == Listed[op.request.tattoo]
      place == <<TattooArea[chosen], op.request.slot>>
  IN
  /\ At("apply", "templated")
  /\ RestoreTemplate(chosen)
  /\ \/ /\ Fail("add", "failed")
        /\ UNCHANGED storeVars
     \/ /\ place \notin Place
        /\ Answer([error |-> "failed"])
        /\ UNCHANGED storeVars
     \/ /\ place \in Place
        /\ \E h \in Handle \ AppliedHandles :
             Wear(place, h, [tattoo |-> chosen, color |-> template[chosen],
                             material |-> "own"])
        /\ Advance("written")
  /\ UNCHANGED <<external, updated, overlay, changes>>

-----------------------------------------------------------------------------
(* removeFromSlot                                                          *)

RemoveTattoo ==
  /\ At("remove", "entered")
  /\ Writes
  /\ ~TakenByOthers
  /\ \/ /\ Fail("remove", "failed")
        /\ UNCHANGED storeVars
     \/ /\ TakeOff(Target)
        /\ Advance("written")
  /\ UNCHANGED <<external, template, updated, overlay, changes>>

-----------------------------------------------------------------------------
(* updateTattooAppearance                                                  *)

CheckMembership ==
  /\ At("appearance", "entered")
  /\ Writes /\ Valid
  /\ \/ Fail("queryApplied", "failed")
     \/ /\ ~StillApplied
        /\ Answer([error |-> "failed"])
     \/ /\ StillApplied
        /\ Advance("member")
  /\ UNCHANGED <<storeVars, external, template, updated, overlay, changes>>

\* writeAppearance: color and alpha, then the fields of the material, each
\* read back; the request holds the defaults of the material.
WriteColor ==
  /\ At("appearance", "member")
  /\ \/ /\ Fail("writeColor", "failed")
        /\ UNCHANGED object
     \/ /\ object' = [object EXCEPT ![op.request.handle].color = op.request.color]
        /\ Advance("colored")
  /\ UNCHANGED <<applied, external, template, updated, overlay, changes>>

WriteMaterial ==
  /\ At("appearance", "colored")
  /\ \/ /\ Fail("writeMaterial", "failed")
        /\ UNCHANGED object
     \/ /\ object' = [object EXCEPT ![op.request.handle].material = "default"]
        /\ Advance("written")
  /\ UNCHANGED <<applied, external, template, updated, overlay, changes>>

-----------------------------------------------------------------------------
(* The common end of the mutations.                                        *)

SynchronizeOnly(kind) ==
  /\ kind \in {"remove", "appearance"}
  /\ At(kind, "entered")
  /\ ~Writes

\* Mutant: every operation reads the mark back.
AlwaysReadBack(kind) == TRUE

\* Mutant: no operation does.
NeverReadBack(kind) == FALSE

\* Only updateTattooAppearance reads its mark of the actor back.
ReadsMarkBack(kind) == kind = "appearance"

MarkActorUpdated(kind) ==
  /\ At(kind, "written") \/ SynchronizeOnly(kind)
  /\ \/ /\ updated' = TRUE
        /\ Advance("marked")
     \/ /\ "markUpdated" \in FailingCall
        /\ IF ReadsMarkBack(kind) THEN Answer([error |-> "failed"])
                               ELSE Advance("marked")
        /\ UNCHANGED updated
  /\ UNCHANGED <<storeVars, external, template, overlay, changes>>

Synchronize(kind) ==
  /\ At(kind, "marked")
  /\ \/ /\ Fail("synchronize", "synchronizeFailed")
        /\ UNCHANGED <<updated, overlay>>
     \/ /\ overlay' = IF updated THEN Shown ELSE overlay
        /\ updated' = FALSE
        /\ Answer([error |-> None])
  /\ UNCHANGED <<storeVars, external, template, changes>>

Return ==
  /\ op # None /\ op.result # None
  /\ op' = None
  /\ UNCHANGED <<storeVars, external, template, updated, overlay, changes>>

Step ==
  \/ \E k \in Kind : Refuse(k)
  \/ QuerySlots
  \/ FindTemplate \/ AddTattoo
  \/ RemoveTattoo
  \/ CheckMembership \/ WriteColor \/ WriteMaterial
  \/ \E k \in Mutation : MarkActorUpdated(k) \/ Synchronize(k)

-----------------------------------------------------------------------------
(* What others do between two operations, each synchronized at once.       *)

Others ==
  /\ op = None
  /\ changes < MaxChanges
  /\ changes' = changes + 1
  /\ UNCHANGED <<template, op>>

\* Another user of SlaveTats applies a tattoo, or removes one.
OtherModApplies(place, tattoo) ==
  /\ Others
  /\ place \notin external
  /\ TattooArea[tattoo] = place[1]
  /\ \E h \in Handle \ AppliedHandles :
       Wear(place, h, Catalogued(tattoo))
  /\ updated' = FALSE
  /\ UNCHANGED external
  /\ overlay' = Shown'

OtherModRemoves(place) ==
  /\ Others
  /\ applied[place] # None
  /\ TakeOff(place)
  /\ updated' = FALSE
  /\ UNCHANGED external
  /\ overlay' = Shown'

\* A mod without SlaveTats takes a free place, or gives it back.
ExternalOverlay(place) ==
  /\ Others
  /\ applied[place] = None
  /\ external' = IF place \in external THEN external \ {place}
                                       ELSE external \cup {place}
  /\ UNCHANGED <<storeVars, updated, overlay>>

Environment ==
  \E p \in Place :
    \/ \E t \in Tattoo : OtherModApplies(p, t)
    \/ OtherModRemoves(p)
    \/ ExternalOverlay(p)

\* The requests a workflow makes: of a slot of the area, and of a tattoo
\* that declares the area.
Issuable(kind) ==
  {r \in Request(kind) :
     /\ kind \in {"apply", "remove"} => <<r.area, r.slot>> \in Place
     /\ kind = "apply" => TattooArea[r.tattoo] = r.area}

Next ==
  \/ \E k \in Kind : \E r \in Issuable(k) : Begin(k, r)
  \/ Step
  \/ Return
  \/ Environment

Spec == Init /\ [][Next]_backendVars

-----------------------------------------------------------------------------
(* What must hold.                                                         *)

\* Every part of the store, the actor and the operation keeps its type.
TypeOK ==
  /\ applied \in [Place -> OptionalOf(Handle)]
  /\ object \in [Handle -> Object]
  /\ external \subseteq Place
  /\ template \in [Tattoo -> RawColor \cup Color]
  /\ updated \in BOOLEAN
  /\ overlay \in [Place -> OptionalOf(Object)]
  /\ op \in OptionalOf(Operation)
  /\ op # None => /\ op.request \in Request(op.kind)
                  /\ op.result = None <=> op.at # "answered"
                  /\ op.result # None => op.result \in Results(op.kind, op.request)
  /\ changes \in 0 .. MaxChanges

(***************************************************************************)
(* The catalog template lends its appearance to one application only: once *)
(* the tattoo was added or rejected it holds its own again, on every path  *)
(* through applyToSlot.  A template left patched would color every later   *)
(* application, by any mod.                                                *)
(***************************************************************************)
TemplatesRestored ==
  op = None \/ op.at # "templated" => template = DefaultColor

(***************************************************************************)
(* No operation touches a place another mod holds, although the place may  *)
(* have been taken after the snapshot the request was made from.           *)
(***************************************************************************)
ExternalUntouched ==
  [][op # None => \A p \in external : applied'[p] = applied[p]]_backendVars

(***************************************************************************)
(* An appearance is only ever written to a tattoo the actor wears at that  *)
(* moment: a handle that went stale may name anything.                     *)
(***************************************************************************)
StaleHandleUntouched ==
  [][op # None /\ op.kind = "appearance" =>
       \A h \in Handle : object'[h] # object[h] => h \in AppliedHandles]_backendVars

(***************************************************************************)
(* A failed application or removal left the actor as it was, so that it    *)
(* can be repeated as a whole.  (A failed update may have written a part.) *)
(***************************************************************************)
FailureChangesNothing ==
  op # None /\ op.kind \in {"apply", "remove"} /\ op.result = [error |-> "failed"] =>
    Shown = op.before

(***************************************************************************)
(* Success, and a failure of the synchronization alone, both mean that     *)
(* what was asked for is stored, and nothing else changed.                 *)
(***************************************************************************)
Wanted(request, kind, p) ==
  CASE kind = "apply" /\ p = Target ->
         [tattoo |-> request.tattoo, color |-> request.color, material |-> "own"]
    [] kind = "remove" /\ p = Target -> None
    [] kind = "appearance" /\ applied[p] = request.handle ->
         [op.before[p] EXCEPT !.color = request.color, !.material = "default"]
    [] OTHER -> op.before[p]

Stored(result) ==
  result \in {[error |-> None], [error |-> "synchronizeFailed"]}

SuccessIsStored ==
  op # None /\ op.kind \in Mutation /\ Stored(op.result) =>
    \A p \in Place :
      Shown[p] = IF op.kind # "apply" /\ ~Writes THEN op.before[p]
                 ELSE Wanted(op.request, op.kind, p)

(***************************************************************************)
(* What an edit does not show survives it: the material of a tattoo is     *)
(* written only with what the user changed.                                *)
(***************************************************************************)
MaterialSurvivesEdit ==
  [][op # None /\ op.kind = "appearance" =>
       \A h \in Handle : object'[h].material = object[h].material]_backendVars

(***************************************************************************)
(* An update of an appearance that reports success is visible: its mark is *)
(* read back before the synchronization that depends on it.                *)
(***************************************************************************)
UpdateIsShown ==
  op # None /\ op.kind = "appearance" /\ op.result = [error |-> None] =>
    overlay = Shown
=============================================================================
