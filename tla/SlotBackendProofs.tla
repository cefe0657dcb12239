------------------------- MODULE SlotBackendProofs -------------------------
(***************************************************************************)
(* The operations behind the slot workflow, for any areas, tattoos and     *)
(* handles, whichever calls fail and whatever other mods do between two    *)
(* operations.                                                             *)
(***************************************************************************)
EXTENDS SlotBackend, TLAPS

\* No two tattoos of the catalog share a section and a name.
NamesDiffer == \A t \in Tattoo : Listed[t] = t

\* No handle is applied to two places.
Distinct ==
  \A p, q \in Place : applied[p] # None /\ applied[p] = applied[q] => p = q

\* What an operation knows at each of its stages.
Control ==
  op # None =>
    /\ op.kind \in {"apply", "remove"} => Target \in Place
    /\ op.kind = "apply" => TattooArea[op.request.tattoo] = op.request.area
    /\ op.at = "templated" => op.kind = "apply" /\ Target \notin external
    /\ op.at \in {"member", "colored"} =>
         op.kind = "appearance" /\ Writes /\ StillApplied
    /\ op.at \in {"written", "marked"} => op.kind \in Mutation
    /\ op.at = "written" => op.kind = "apply" \/ Writes

\* The template lent to an application, and every other one.
Templates ==
  /\ TemplatesRestored
  /\ op # None /\ op.at = "templated" =>
       /\ op.saved = DefaultColor[Listed[op.request.tattoo]]
       /\ template = [DefaultColor EXCEPT ![Listed[op.request.tattoo]] =
                        op.request.color]

\* A mark that was read back is there until the synchronization.
Marks ==
  /\ op # None /\ op.kind = "appearance" /\ op.at = "marked" => updated
  /\ UpdateIsShown

\* What is stored at each stage, as far as it is certain.
Progress ==
  op # None =>
    /\ op.at \in {"entered", "templated", "member"} => Shown = op.before
    /\ op.at = "colored" =>
         \A p \in Place :
           /\ applied[p] = op.request.handle => op.before[p] # None
           /\ Shown[p] = IF applied[p] = op.request.handle
                         THEN [op.before[p] EXCEPT !.color = op.request.color]
                         ELSE op.before[p]
    /\ (op.at \in {"written", "marked"} \/ (op.kind \in Mutation /\ Stored(op.result))) =>
         \A p \in Place :
           Shown[p] = IF op.kind # "apply" /\ ~Writes THEN op.before[p]
                      ELSE Wanted(op.request, op.kind, p)
    /\ FailureChangesNothing

IInv ==
  /\ TypeOK /\ Distinct /\ Control /\ Templates /\ Marks
  /\ NamesDiffer => Progress

-----------------------------------------------------------------------------
(* The values that are passed.                                             *)

\* The members of a request.
LEMMA RequestFields ==
  ASSUME TypeOK, op # None
  PROVE  /\ op.kind \in Kind /\ op.request \in Request(op.kind)
         /\ op.kind = "query" => op.request.area \in Area
         /\ op.kind = "apply" =>
              /\ op.request.area \in Area /\ op.request.slot \in Slot
              /\ op.request.tattoo \in Tattoo /\ op.request.color \in Color
         /\ op.kind = "remove" =>
              /\ op.request.area \in Area /\ op.request.slot \in Slot
              /\ op.request.mode \in Mode
         /\ op.kind = "appearance" =>
              /\ op.request.handle \in Handle
              /\ op.request.color \in RawColor \cup Color
              /\ op.request.mode \in Mode
<1>1. op.kind \in Kind /\ op.request \in Request(op.kind)
  BY DEF TypeOK, Operation, OptionalOf
<1>2. CASE op.kind = "query"
  BY <1>1, <1>2 DEF Request
<1>3. CASE op.kind = "apply"
  BY <1>1, <1>3 DEF Request
<1>4. CASE op.kind = "remove"
  BY <1>1, <1>4 DEF Request
<1>5. CASE op.kind = "appearance"
  BY <1>1, <1>5 DEF Request
<1> QED
  BY <1>1, <1>2, <1>3, <1>4, <1>5 DEF Kind

\* The next stage of an operation.
LEMMA AdvanceOp ==
  ASSUME TypeOK, op # None, op.at # "answered", NEW step \in Stage \ {"answered"},
         Advance(step)
  PROVE  /\ op' \in Operation /\ op' # None
         /\ op'.kind = op.kind /\ op'.request = op.request /\ op'.at = step
         /\ op'.before = op.before /\ op'.saved = op.saved /\ op'.result = None
         /\ op.result = None
<1>1. op \in Operation /\ op.result = None
  BY DEF TypeOK, OptionalOf
<1>2. op' = [op EXCEPT !.at = step]
  BY DEF Advance
<1>3. op' \in Operation
  BY <1>1, <1>2 DEF Operation
<1> QED
  BY <1>1, <1>2, <1>3, OperationAssumption DEF Operation

\* The answer of an operation.
LEMMA AnswerOp ==
  ASSUME TypeOK, op # None, NEW r \in AnyResult, Answer(r)
  PROVE  /\ op' \in Operation /\ op' # None
         /\ op'.kind = op.kind /\ op'.request = op.request
         /\ op'.at = "answered" /\ op'.result = r /\ r # None
         /\ op'.before = op.before /\ op'.saved = op.saved
<1>1. op \in Operation
  BY DEF TypeOK, OptionalOf
<1>2. op' = [op EXCEPT !.at = "answered", !.result = r]
  BY DEF Answer
<1>3. op' \in Operation
  BY <1>1, <1>2 DEF Operation, Stage, OptionalOf
<1> QED
  BY <1>1, <1>2, <1>3, OperationAssumption, NoneRecordAssumption DEF Operation

\* The answers there are.
LEMMA ResultsAreResults ==
  ASSUME NEW kind \in Kind, NEW request, request.area \in Area \/ kind # "query"
  PROVE  /\ Results(kind, request) \subseteq AnyResult
         /\ [error |-> "failed"] \in Results(kind, request)
         /\ kind \in Mutation => /\ [error |-> "synchronizeFailed"] \in Results(kind, request)
                                 /\ [error |-> None] \in Results(kind, request)
         /\ ExceptionError(kind, request) \in {"failed", "synchronizeFailed"}
         /\ [error |-> ExceptionError(kind, request)] \in Results(kind, request)
<1>1. CASE kind = "query"
  <2>1. Results(kind, request) =
          {[error |-> "failed"]} \cup
          {[error |-> None, slots |-> s] : s \in Snapshot(request.area)}
    BY <1>1 DEF Results, Failures
  <2>2. Snapshot(request.area) \subseteq AnySnapshot
    BY <1>1 DEF AnySnapshot
  <2>3. [error |-> "failed"] \in AnyResult
    BY DEF AnyResult, OptionalOf, Error
  <2>4. {[error |-> None, slots |-> s] : s \in Snapshot(request.area)} \subseteq AnyResult
    BY <2>2 DEF AnyResult
  <2> QED
    BY <1>1, <2>1, <2>3, <2>4 DEF ExceptionError, Mutation
<1>2. CASE kind # "query"
  <2>1. Results(kind, request) = {[error |-> e] : e \in Error} \cup {[error |-> None]}
    BY <1>2 DEF Results, Failures
  <2> QED
    BY <2>1, <1>2 DEF AnyResult, OptionalOf, Error, ExceptionError
<1> QED
  BY <1>1, <1>2

\* The slots a query reports.
LEMMA ReportType ==
  ASSUME TypeOK, NEW area \in Area
  PROVE  Report(area) \in Snapshot(area)
<1>1. ASSUME NEW s \in 0 .. SlotCount[area] - 1
      PROVE  SlotReport(<<area, s>>) \in SlotState
  <2>1. <<area, s>> \in Place
    <3>1. SlotCount[area] \in Nat
      BY SlotCountAssumption
    <3>2. s \in Slot /\ s < SlotCount[area]
      BY <1>1, <3>1 DEF Slot
    <3> QED
      BY <3>2 DEF Place
  <2>2. CASE applied[<<area, s>>] # None
    <3>1. applied[<<area, s>>] \in Handle
      BY <2>1, <2>2 DEF TypeOK, OptionalOf
    <3>2. object[applied[<<area, s>>]].color \in RawColor \cup Color
      BY <3>1 DEF TypeOK, Object
    <3>3. Reported(object[applied[<<area, s>>]].color) \in RawColor
      BY <3>2, ReportedAssumption DEF Reported
    <3> QED
      BY <2>2, <3>1, <3>3 DEF SlotReport, SlotState, Managed
  <2>3. CASE applied[<<area, s>>] = None
    BY <2>3 DEF SlotReport, SlotState, Unmanaged
  <2> QED
    BY <2>2, <2>3
<1> QED
  BY <1>1 DEF Report, Snapshot

-----------------------------------------------------------------------------
(* What the writes make of the store.                                      *)

\* What is shown of a place is an object, or nothing.
LEMMA ShownType ==
  ASSUME TypeOK
  PROVE  /\ Shown \in [Place -> OptionalOf(Object)]
         /\ \A p \in Place : applied[p] # None =>
              /\ applied[p] \in Handle
              /\ Shown[p] = object[applied[p]] /\ Shown[p] \in Object
         /\ \A p \in Place : applied[p] = None => Shown[p] = None
BY DEF TypeOK, Shown, OptionalOf

\* Two objects of the store.
LEMMA ForeignType == Foreign \in Object /\ \A t \in Tattoo : Catalogued(t) \in Object
<1>1. MaxColor \in Color /\ "own" \in Material
  BY ColorAssumption DEF Color, Material
<1>2. \A t \in Tattoo : DefaultColor[t] \in RawColor
  BY DefaultColorAssumption
<1> QED
  BY <1>1, <1>2 DEF Foreign, Catalogued, Object, OptionalOf

\* A tattoo is put on a place, under a handle that was not worn.
LEMMA WearStores ==
  ASSUME TypeOK, Distinct, NEW place \in Place, NEW h \in Handle \ AppliedHandles,
         NEW content \in Object, Wear(place, h, content)
  PROVE  /\ applied' \in [Place -> OptionalOf(Handle)] /\ object' \in [Handle -> Object]
         /\ Distinct'
         /\ Shown' = [Shown EXCEPT ![place] = content]
         /\ \A p \in Place \ {place} : applied'[p] = applied[p]
<1>1. /\ applied' = [applied EXCEPT ![place] = h]
      /\ object' = [Released(place) EXCEPT ![h] = content]
  BY DEF Wear
<1>2. \A p \in Place : applied[p] # h
  BY NoneAssumption DEF AppliedHandles
<1>3. applied \in [Place -> OptionalOf(Handle)] /\ object \in [Handle -> Object]
  BY DEF TypeOK
<1>4. Released(place) \in [Handle -> Object]
  BY <1>3, ForeignType DEF Released
<1>5. applied' \in [Place -> OptionalOf(Handle)] /\ object' \in [Handle -> Object]
  BY <1>1, <1>3, <1>4 DEF OptionalOf
<1>6. Distinct'
  BY <1>1, <1>2, <1>3 DEF Distinct
<1>7. ASSUME NEW p \in Place
      PROVE  Shown'[p] = IF p = place THEN content ELSE Shown[p]
  <2>1. CASE p = place
    <3>1. applied'[p] = h /\ h # None
      BY <1>1, <1>3, <2>1, NoneAssumption
    <3>2. object'[h] = content
      BY <1>1, <1>4
    <3> QED
      BY <2>1, <3>1, <3>2 DEF Shown
  <2>2. CASE p # place
    <3>1. applied'[p] = applied[p]
      BY <1>1, <1>3, <2>2
    <3>2. CASE applied[p] # None
      <4>1. applied[p] \in Handle /\ applied[p] # h /\ applied[p] # applied[place]
        BY <1>2, <1>3, <2>2, <3>2 DEF Distinct, OptionalOf
      <4>2. object'[applied[p]] = object[applied[p]]
        BY <1>1, <1>4, <4>1 DEF Released
      <4> QED
        BY <2>2, <3>1, <3>2, <4>2 DEF Shown
    <3>3. CASE applied[p] = None
      BY <2>2, <3>1, <3>3 DEF Shown
    <3> QED
      BY <3>2, <3>3
  <2> QED
    BY <2>1, <2>2
<1>8. Shown' = [Shown EXCEPT ![place] = content]
  BY <1>7 DEF Shown
<1> QED
  BY <1>1, <1>3, <1>5, <1>6, <1>8

\* A place is given up.
LEMMA TakeOffStores ==
  ASSUME TypeOK, Distinct, NEW place \in Place, TakeOff(place)
  PROVE  /\ applied' \in [Place -> OptionalOf(Handle)] /\ object' \in [Handle -> Object]
         /\ Distinct'
         /\ Shown' = [Shown EXCEPT ![place] = None]
         /\ \A p \in Place \ {place} : applied'[p] = applied[p]
<1>1. applied' = [applied EXCEPT ![place] = None] /\ object' = Released(place)
  BY DEF TakeOff
<1>2. applied \in [Place -> OptionalOf(Handle)] /\ object \in [Handle -> Object]
  BY DEF TypeOK
<1>3. Released(place) \in [Handle -> Object]
  BY <1>2, ForeignType DEF Released
<1>4. applied' \in [Place -> OptionalOf(Handle)] /\ object' \in [Handle -> Object]
  BY <1>1, <1>2, <1>3 DEF OptionalOf
<1>5. Distinct'
  BY <1>1, <1>2 DEF Distinct
<1>6. ASSUME NEW p \in Place
      PROVE  Shown'[p] = IF p = place THEN None ELSE Shown[p]
  <2>1. CASE p = place
    <3>1. applied'[p] = None
      BY <1>1, <1>2, <2>1
    <3> QED
      BY <2>1, <3>1 DEF Shown
  <2>2. CASE p # place
    <3>1. applied'[p] = applied[p]
      BY <1>1, <1>2, <2>2
    <3>2. CASE applied[p] # None
      <4>1. applied[p] \in Handle /\ applied[p] # applied[place]
        BY <1>2, <2>2, <3>2 DEF Distinct, OptionalOf
      <4>2. object'[applied[p]] = object[applied[p]]
        BY <1>1, <4>1 DEF Released
      <4> QED
        BY <2>2, <3>1, <3>2, <4>2 DEF Shown
    <3>3. CASE applied[p] = None
      BY <2>2, <3>1, <3>3 DEF Shown
    <3> QED
      BY <3>2, <3>3
  <2> QED
    BY <2>1, <2>2
<1>7. Shown' = [Shown EXCEPT ![place] = None]
  BY <1>6 DEF Shown
<1> QED
  BY <1>1, <1>2, <1>4, <1>5, <1>7

-----------------------------------------------------------------------------
(* Steps that answer without a change of the store.                        *)

\* No answer is None.
LEMMA AnswersDiffer ==
  /\ [error |-> "failed"] # None /\ [error |-> "synchronizeFailed"] # None
  /\ [error |-> None] # None
  /\ [error |-> "failed"] # [error |-> None]
  /\ [error |-> "synchronizeFailed"] # [error |-> None]
  /\ [error |-> "failed"] # [error |-> "synchronizeFailed"]
  /\ ~Stored(None) /\ ~Stored([error |-> "failed"])
  /\ "failed" # None /\ "synchronizeFailed" # None
<1>1. /\ [error |-> "failed"] \in AnyResult /\ [error |-> "synchronizeFailed"] \in AnyResult
      /\ [error |-> None] \in AnyResult
  BY DEF AnyResult, OptionalOf, Error
<1>2. "failed" # None /\ "synchronizeFailed" # None
  BY NoneAssumption DEF Error
<1>3. /\ [error |-> "failed"] # [error |-> None]
      /\ [error |-> "synchronizeFailed"] # [error |-> None]
      /\ [error |-> "failed"] # [error |-> "synchronizeFailed"]
  BY <1>2
<1> QED
  BY <1>1, <1>2, <1>3, NoneRecordAssumption DEF Stored

\* A refusal, a failure or the report of a query.
LEMMA AnswerKeeps ==
  ASSUME IInv, op # None, op.at # "answered",
         NEW r \in Results(op.kind, op.request), Answer(r),
         template' = DefaultColor,
         UNCHANGED <<storeVars, external, updated, overlay, changes>>,
         op.kind = "appearance" => r # [error |-> None],
         r = [error |-> "failed"] /\ op.kind \in {"apply", "remove"}
           => op.at \in {"entered", "templated"},
         Stored(r) => \/ op.kind = "query"
                      \/ op.kind # "apply" /\ ~Writes /\ op.at = "entered"
  PROVE  IInv'
<1>1. op.kind \in Kind /\ (op.request.area \in Area \/ op.kind # "query")
  BY RequestFields DEF IInv
<1>2. r \in AnyResult
  BY <1>1, ResultsAreResults
<1>3. /\ op' \in Operation /\ op' # None
      /\ op'.kind = op.kind /\ op'.request = op.request
      /\ op'.at = "answered" /\ op'.result = r /\ r # None
      /\ op'.before = op.before
  BY <1>2, AnswerOp DEF IInv
<1>4. applied' = applied /\ object' = object
  BY DEF storeVars
<1>5. Shown' = Shown
  BY <1>4 DEF Shown
<1>6. TypeOK'
  <2>1. template' \in [Tattoo -> RawColor \cup Color]
    BY DefaultColorAssumption
  <2>2. op' \in OptionalOf(Operation) /\ op'.request \in Request(op'.kind)
    BY <1>3, RequestFields DEF IInv, OptionalOf
  <2> QED
    BY <1>3, <1>4, <2>1, <2>2 DEF IInv, TypeOK
<1>7. Distinct'
  BY <1>4 DEF IInv, Distinct
<1>8. Control'
  BY <1>3, <1>4 DEF IInv, Control, Target
<1>9. Templates'
  BY <1>3 DEF Templates, TemplatesRestored
<1>10. Marks'
  BY <1>3 DEF Marks, UpdateIsShown
<1>11. ASSUME NamesDiffer
       PROVE  Progress'
  <2>1. Progress
    BY <1>11 DEF IInv
  <2>2. FailureChangesNothing'
    BY <1>3, <1>5, <2>1 DEF Progress, FailureChangesNothing
  <2>3. (op'.kind \in Mutation /\ Stored(op'.result)) =>
          \A p \in Place :
            Shown'[p] = IF op'.kind # "apply" /\ ~(Writes') THEN op'.before[p]
                        ELSE Wanted(op.request, op.kind, p)
    BY <1>3, <1>5, <2>1 DEF Progress, Mutation, Writes
  <2>4. (op'.kind \in Mutation /\ Stored(op'.result)) => ~(Writes') /\ op'.kind # "apply"
    BY <1>3 DEF Mutation, Writes
  <2> QED
    BY <1>3, <2>2, <2>3, <2>4 DEF Progress
<1> QED
  BY <1>6, <1>7, <1>8, <1>9, <1>10, <1>11 DEF IInv

-----------------------------------------------------------------------------
(* Every step.                                                             *)

\* An operation begins.
LEMMA BeginKeeps ==
  ASSUME IInv, NEW kind \in Kind, NEW request \in Issuable(kind), Begin(kind, request)
  PROVE  IInv'
<1>1. /\ request \in Request(kind)
      /\ kind \in {"apply", "remove"} => <<request.area, request.slot>> \in Place
      /\ kind = "apply" => TattooArea[request.tattoo] = request.area
  BY DEF Issuable
<1>2. request \in AnyRequest
  BY <1>1 DEF AnyRequest
<1>3. op' = [kind |-> kind, request |-> request, at |-> "entered",
             saved |-> None, before |-> Shown, result |-> None]
  BY DEF Begin
<1>4. Shown \in [Place -> OptionalOf(Object)]
  BY ShownType DEF IInv
<1>5. op' \in Operation
  BY <1>2, <1>3, <1>4 DEF Operation, Stage, OptionalOf
<1>6. /\ UNCHANGED <<applied, object, external, template, updated, overlay, changes>>
      /\ op = None
  BY DEF Begin, storeVars
<1>7. TypeOK'
  BY <1>1, <1>3, <1>5, <1>6 DEF IInv, TypeOK, OptionalOf
<1>8. Distinct'
  BY <1>6 DEF IInv, Distinct
<1>9. Control'
  BY <1>1, <1>3, <1>6 DEF Control, Target
<1>10. Templates' /\ Marks'
  BY <1>3, <1>6, AnswersDiffer
     DEF IInv, Templates, TemplatesRestored, Marks, UpdateIsShown
<1>11. Shown' = Shown
  BY <1>6 DEF Shown
<1>12. Progress'
  BY <1>3, <1>11, AnswersDiffer DEF Progress, FailureChangesNothing
<1> QED
  BY <1>7, <1>8, <1>9, <1>10, <1>12 DEF IInv

\* A step that fails, in its usual form.
LEMMA FailKeeps ==
  ASSUME IInv, op # None, op.at # "answered", NEW call, Fail(call, "failed"),
         template' = DefaultColor,
         UNCHANGED <<storeVars, external, updated, overlay, changes>>,
         op.kind \in {"apply", "remove"} => op.at \in {"entered", "templated"}
  PROVE  IInv'
<1>1. Answer([error |-> "failed"])
  BY DEF Fail
<1>2. op.kind \in Kind /\ (op.request.area \in Area \/ op.kind # "query")
  BY RequestFields DEF IInv
<1>3. [error |-> "failed"] \in Results(op.kind, op.request)
  BY <1>2, ResultsAreResults
<1> QED
  BY <1>1, <1>3, AnswersDiffer, AnswerKeeps

\* The template holds its own appearance outside of an application.
LEMMA TemplateIsOwn ==
  ASSUME IInv, op = None \/ op.at # "templated", UNCHANGED template
  PROVE  template' = DefaultColor
BY DEF IInv, Templates, TemplatesRestored

\* An operation is refused.
LEMMA RefuseKeeps ==
  ASSUME IInv, NEW kind \in Kind, Refuse(kind)
  PROVE  IInv'
<1>1. /\ op # None /\ op.kind = kind /\ op.at = "entered"
      /\ UNCHANGED <<storeVars, external, template, updated, overlay, changes>>
  BY DEF Refuse, At
<1>2. template' = DefaultColor
  BY <1>1, TemplateIsOwn
<1>3. op.kind \in Kind /\ (op.request.area \in Area \/ op.kind # "query")
  BY <1>1, RequestFields DEF IInv
<1>4. [error |-> "failed"] \in Results(op.kind, op.request)
  BY <1>3, ResultsAreResults
<1>5. ASSUME Answer([error |-> "failed"])
      PROVE  IInv'
  BY <1>1, <1>2, <1>4, <1>5, AnswersDiffer, AnswerKeeps
<1>6. CASE Fail("exception", ExceptionError(kind, op.request))
  <2>1. Answer([error |-> ExceptionError(kind, op.request)])
    BY <1>6 DEF Fail
  <2>2. CASE kind = "appearance" /\ op.request.mode = "synchronizeOnly"
    <3>1. ExceptionError(kind, op.request) = "synchronizeFailed" /\ ~Writes
      BY <2>2 DEF ExceptionError, Writes
    <3>2. [error |-> "synchronizeFailed"] \in Results(op.kind, op.request)
      BY <1>1, <2>2, ResultsAreResults DEF Mutation
    <3> QED
      BY <1>1, <1>2, <2>1, <2>2, <3>1, <3>2, AnswersDiffer, AnswerKeeps
  <2>3. CASE ~(kind = "appearance" /\ op.request.mode = "synchronizeOnly")
    <3>1. ExceptionError(kind, op.request) = "failed"
      BY <2>3 DEF ExceptionError
    <3> QED
      BY <1>5, <2>1, <3>1
  <2> QED
    BY <2>2, <2>3
<1> QED
  BY <1>5, <1>6 DEF Refuse, Fail

\* A query reports the slots.
LEMMA QueryKeeps ==
  ASSUME IInv, QuerySlots
  PROVE  IInv'
<1>1. /\ op # None /\ op.kind = "query" /\ op.at = "entered"
      /\ UNCHANGED <<storeVars, external, template, updated, overlay, changes>>
      /\ Answer([error |-> None, slots |-> Report(op.request.area)])
  BY DEF QuerySlots, At
<1>2. Report(op.request.area) \in Snapshot(op.request.area)
  BY <1>1, RequestFields, ReportType DEF IInv
<1>3. [error |-> None, slots |-> Report(op.request.area)] \in Results(op.kind, op.request)
  BY <1>1, <1>2 DEF Results
<1>4. template' = DefaultColor
  BY <1>1, TemplateIsOwn
<1> QED
  BY <1>1, <1>3, <1>4, AnswerKeeps

\* The template of an application is found and lent, or the search fails.
LEMMA FindTemplateKeeps ==
  ASSUME IInv, FindTemplate
  PROVE  IInv'
<1>1. /\ op # None /\ op.kind = "apply" /\ op.at = "entered" /\ Target \notin external
      /\ UNCHANGED <<applied, object, external, updated, overlay, changes>>
  BY DEF FindTemplate, At, TakenByOthers, storeVars
<1>2. CASE Fail("queryAvailable", "failed") /\ UNCHANGED template
  <2>1. template' = DefaultColor
    BY <1>1, <1>2, TemplateIsOwn
  <2> QED
    BY <1>1, <1>2, <2>1, FailKeeps DEF storeVars
<1>3. CASE /\ PatchTemplate(Listed[op.request.tattoo], op.request.color)
           /\ op' = [op EXCEPT !.at = "templated",
                               !.saved = template[Listed[op.request.tattoo]]]
  <2>1. /\ template = DefaultColor /\ op \in Operation
        /\ op.request.tattoo \in Tattoo /\ op.request.color \in Color
        /\ op.request \in Request(op.kind)
    BY <1>1, RequestFields
       DEF IInv, Templates, TemplatesRestored, TypeOK, OptionalOf
  <2>2. Listed[op.request.tattoo] \in Tattoo
    BY <2>1, ListedAssumption
  <2>3. template[Listed[op.request.tattoo]] \in RawColor
    BY <2>1, <2>2, DefaultColorAssumption
  <2>4. /\ op' \in Operation /\ op'.kind = op.kind /\ op'.request = op.request
        /\ op'.at = "templated" /\ op'.result = op.result /\ op'.before = op.before
        /\ op'.saved = DefaultColor[Listed[op.request.tattoo]]
    BY <1>3, <2>1, <2>3 DEF Operation, Stage, OptionalOf
  <2>5. op' # None /\ op.result = None
    BY <1>1, <2>4, OperationAssumption DEF IInv, TypeOK
  <2>6. template' = [DefaultColor EXCEPT ![Listed[op.request.tattoo]] = op.request.color]
    BY <1>3, <2>1 DEF PatchTemplate
  <2>7. TypeOK'
    <3>1. template' \in [Tattoo -> RawColor \cup Color]
      BY <2>1, <2>2, <2>6, DefaultColorAssumption
    <3> QED
      BY <1>1, <2>1, <2>4, <2>5, <3>1 DEF IInv, TypeOK, OptionalOf
  <2>8. Distinct'
    BY <1>1 DEF IInv, Distinct
  <2>9. Control'
    BY <1>1, <2>4 DEF IInv, Control, Target
  <2>10. Templates' /\ Marks'
    BY <1>1, <2>4, <2>5, <2>6, AnswersDiffer
       DEF Templates, TemplatesRestored, Marks, UpdateIsShown
  <2>11. Shown' = Shown
    BY <1>1 DEF Shown
  <2>12. NamesDiffer => Progress'
    BY <1>1, <2>4, <2>5, <2>11, AnswersDiffer
       DEF IInv, Progress, FailureChangesNothing
  <2> QED
    BY <2>7, <2>8, <2>9, <2>10, <2>12 DEF IInv
<1> QED
  BY <1>2, <1>3 DEF FindTemplate

\* A step to the next stage that leaves template and overlay alone.
LEMMA AdvanceTyped ==
  ASSUME IInv, op # None, op.at # "answered",
         NEW step \in Stage \ {"answered", "templated"}, Advance(step),
         applied' \in [Place -> OptionalOf(Handle)], object' \in [Handle -> Object],
         updated' \in BOOLEAN, template' = DefaultColor,
         UNCHANGED <<external, overlay, changes>>
  PROVE  TypeOK' /\ Templates'
<1>1. /\ op' \in Operation /\ op' # None
      /\ op'.kind = op.kind /\ op'.request = op.request /\ op'.at = step
      /\ op'.result = None
  BY AdvanceOp DEF IInv
<1>2. template' \in [Tattoo -> RawColor \cup Color]
  BY DefaultColorAssumption
<1>3. op'.request \in Request(op'.kind)
  BY <1>1, RequestFields DEF IInv
<1> QED
  BY <1>1, <1>2, <1>3
     DEF IInv, TypeOK, OptionalOf, Templates, TemplatesRestored

\* What is stored once an operation has written.
LEMMA WrittenProgress ==
  ASSUME IInv, op # None, op.at # "answered",
         NEW step \in {"written", "marked"}, Advance(step),
         (\A p \in Place :
            Shown[p] = IF op.kind # "apply" /\ ~Writes THEN op.before[p]
                       ELSE Wanted(op.request, op.kind, p))'
  PROVE  Progress'
<1>1. op' # None /\ op'.at = step /\ op'.result = None
  BY AdvanceOp DEF IInv, Stage
<1> QED
  BY <1>1, AnswersDiffer DEF Progress, FailureChangesNothing

\* SlaveTats adds the tattoo, or does not.
LEMMA AddTattooKeeps ==
  ASSUME IInv, AddTattoo
  PROVE  IInv'
<1> DEFINE chosen == Listed[op.request.tattoo]
           place == <<TattooArea[chosen], op.request.slot>>
           content == [tattoo |-> chosen, color |-> template[chosen], material |-> "own"]
<1>1. /\ op # None /\ op.kind = "apply" /\ op.at = "templated"
      /\ RestoreTemplate(chosen)
      /\ UNCHANGED <<external, updated, overlay, changes>>
  BY DEF AddTattoo, At
<1>2. /\ op.request.tattoo \in Tattoo /\ op.request.color \in Color /\ chosen \in Tattoo
      /\ op.request.area \in Area
  BY <1>1, RequestFields, ListedAssumption DEF IInv
<1>3. /\ op.saved = DefaultColor[chosen]
      /\ template = [DefaultColor EXCEPT ![chosen] = op.request.color]
  BY <1>1 DEF IInv, Templates
<1>4. template' = DefaultColor
  <2>1. template' = [template EXCEPT ![chosen] = DefaultColor[chosen]]
    BY <1>1, <1>3 DEF RestoreTemplate
  <2>2. DefaultColor \in [Tattoo -> RawColor]
    BY DefaultColorAssumption
  <2> QED
    BY <1>2, <1>3, <2>1, <2>2
<1>5. CASE UNCHANGED storeVars /\ Answer([error |-> "failed"])
  <2>1. [error |-> "failed"] \in Results(op.kind, op.request)
    BY <1>1, <1>2, ResultsAreResults DEF Kind
  <2> QED
    BY <1>1, <1>4, <1>5, <2>1, AnswersDiffer, AnswerKeeps
<1>6. ASSUME place \in Place, NEW h \in Handle \ AppliedHandles,
             Wear(place, h, content), Advance("written")
      PROVE  IInv'
  <2>1. content \in Object /\ template[chosen] = op.request.color
    <3>1. template[chosen] = op.request.color
      BY <1>2, <1>3, DefaultColorAssumption
    <3> QED
      BY <1>2, <3>1 DEF Object, OptionalOf, Material
  <2>2. /\ applied' \in [Place -> OptionalOf(Handle)] /\ object' \in [Handle -> Object]
        /\ Distinct'
        /\ Shown' = [Shown EXCEPT ![place] = content]
    BY <1>6, <2>1, WearStores DEF IInv
  <2>3. TypeOK' /\ Templates'
    BY <1>1, <1>4, <1>6, <2>2, AdvanceTyped DEF Stage, IInv, TypeOK
  <2>4. /\ op' # None /\ op'.kind = "apply" /\ op'.request = op.request
        /\ op'.at = "written" /\ op'.result = None /\ op'.before = op.before
    BY <1>1, <1>6, AdvanceOp DEF IInv, Stage
  <2>5. Control'
    BY <1>1, <2>4 DEF IInv, Control, Target, Mutation, Kind
  <2>6. Marks'
    BY <2>4, AnswersDiffer DEF Marks, UpdateIsShown
  <2>7. ASSUME NamesDiffer
        PROVE  Progress'
    <3>1. chosen = op.request.tattoo /\ TattooArea[chosen] = op.request.area
      BY <1>1, <1>2, <2>7 DEF NamesDiffer, IInv, Control
    <3>2. place = Target
      BY <3>1 DEF Target
    <3>3. Shown = op.before /\ op.before \in [Place -> OptionalOf(Object)]
      BY <1>1, <2>7, ShownType DEF IInv, Progress
    <3>4. \A p \in Place : Shown'[p] = IF p = Target THEN content ELSE op.before[p]
      BY <2>2, <3>2, <3>3
    <3>5. (\A p \in Place :
             Shown[p] = IF op.kind # "apply" /\ ~Writes THEN op.before[p]
                        ELSE Wanted(op.request, op.kind, p))'
      BY <2>1, <2>4, <3>1, <3>4 DEF Wanted, Target
    <3> QED
      BY <1>1, <1>6, <3>5, WrittenProgress
  <2> QED
    BY <2>2, <2>3, <2>5, <2>6, <2>7 DEF IInv
<1> QED
  BY <1>5, <1>6 DEF AddTattoo, Fail

\* SlaveTats removes the tattoo, or does not.
LEMMA RemoveTattooKeeps ==
  ASSUME IInv, RemoveTattoo
  PROVE  IInv'
<1>1. /\ op # None /\ op.kind = "remove" /\ op.at = "entered" /\ Writes
      /\ UNCHANGED <<external, template, updated, overlay, changes>>
  BY DEF RemoveTattoo, At
<1>2. template' = DefaultColor
  BY <1>1, TemplateIsOwn
<1>3. CASE Fail("remove", "failed") /\ UNCHANGED storeVars
  BY <1>1, <1>2, <1>3, FailKeeps
<1>4. CASE TakeOff(Target) /\ Advance("written")
  <2>1. Target \in Place
    BY <1>1 DEF IInv, Control
  <2>2. /\ applied' \in [Place -> OptionalOf(Handle)] /\ object' \in [Handle -> Object]
        /\ Distinct'
        /\ Shown' = [Shown EXCEPT ![Target] = None]
    BY <1>4, <2>1, TakeOffStores DEF IInv
  <2>3. TypeOK' /\ Templates'
    BY <1>1, <1>2, <1>4, <2>2, AdvanceTyped DEF Stage, IInv, TypeOK
  <2>4. /\ op' # None /\ op'.kind = "remove" /\ op'.request = op.request
        /\ op'.at = "written" /\ op'.result = None /\ op'.before = op.before
    BY <1>1, <1>4, AdvanceOp DEF IInv, Stage
  <2>5. Control'
    BY <1>1, <2>4 DEF IInv, Control, Target, Mutation, Kind, Writes
  <2>6. Marks'
    BY <2>4, AnswersDiffer DEF Marks, UpdateIsShown
  <2>7. ASSUME NamesDiffer
        PROVE  Progress'
    <3>1. Shown = op.before /\ op.before \in [Place -> OptionalOf(Object)]
      BY <1>1, <2>7, ShownType DEF IInv, Progress
    <3>2. \A p \in Place : Shown'[p] = IF p = Target THEN None ELSE op.before[p]
      BY <2>2, <3>1
    <3>3. (\A p \in Place :
             Shown[p] = IF op.kind # "apply" /\ ~Writes THEN op.before[p]
                        ELSE Wanted(op.request, op.kind, p))'
      BY <1>1, <2>4, <3>2 DEF Wanted, Target, Writes
    <3> QED
      BY <1>1, <1>4, <3>3, WrittenProgress
  <2> QED
    BY <2>2, <2>3, <2>5, <2>6, <2>7 DEF IInv
<1> QED
  BY <1>3, <1>4 DEF RemoveTattoo

\* The tattoo whose appearance is to change must still be worn.
LEMMA CheckMembershipKeeps ==
  ASSUME IInv, CheckMembership
  PROVE  IInv'
<1>1. /\ op # None /\ op.kind = "appearance" /\ op.at = "entered" /\ Writes
      /\ UNCHANGED <<storeVars, external, template, updated, overlay, changes>>
  BY DEF CheckMembership, At
<1>2. template' = DefaultColor
  BY <1>1, TemplateIsOwn
<1>3. CASE Answer([error |-> "failed"])
  <2>1. [error |-> "failed"] \in Results(op.kind, op.request)
    BY <1>1, ResultsAreResults DEF Kind
  <2> QED
    BY <1>1, <1>2, <1>3, <2>1, AnswersDiffer, AnswerKeeps
<1>4. CASE StillApplied /\ Advance("member")
  <2>1. /\ op' # None /\ op'.kind = "appearance" /\ op'.request = op.request
        /\ op'.at = "member" /\ op'.result = None /\ op'.before = op.before
    BY <1>1, <1>4, AdvanceOp DEF IInv, Stage
  <2>2. applied' = applied /\ object' = object
    BY <1>1 DEF storeVars
  <2>3. TypeOK' /\ Templates'
    BY <1>1, <1>2, <1>4, <2>2, AdvanceTyped DEF Stage, IInv, TypeOK
  <2>4. Distinct' /\ Shown' = Shown
    BY <2>2 DEF IInv, Distinct, Shown
  <2>5. Control'
    BY <1>1, <1>4, <2>1, <2>2 DEF Control, StillApplied, AppliedHandles, Writes
  <2>6. Marks'
    BY <2>1, AnswersDiffer DEF Marks, UpdateIsShown
  <2>7. NamesDiffer => Progress'
    BY <1>1, <2>1, <2>4, AnswersDiffer DEF IInv, Progress, FailureChangesNothing
  <2> QED
    BY <2>3, <2>4, <2>5, <2>6, <2>7 DEF IInv
<1> QED
  BY <1>3, <1>4 DEF CheckMembership, Fail

\* The color and the alpha are written, or a write is not confirmed.
LEMMA WriteColorKeeps ==
  ASSUME IInv, WriteColor
  PROVE  IInv'
<1> DEFINE handle == op.request.handle
           color == op.request.color
<1>1. /\ op # None /\ op.kind = "appearance" /\ op.at = "member"
      /\ UNCHANGED <<applied, external, template, updated, overlay, changes>>
  BY DEF WriteColor, At
<1>2. template' = DefaultColor
  BY <1>1, TemplateIsOwn
<1>3. CASE Fail("writeColor", "failed") /\ UNCHANGED object
  BY <1>1, <1>2, <1>3, FailKeeps DEF storeVars
<1>4. CASE object' = [object EXCEPT ![handle].color = color] /\ Advance("colored")
  <2>1. /\ op' # None /\ op'.kind = "appearance" /\ op'.request = op.request
        /\ op'.at = "colored" /\ op'.result = None /\ op'.before = op.before
    BY <1>1, <1>4, AdvanceOp DEF IInv, Stage
  <2>2. handle \in Handle /\ color \in RawColor \cup Color
    BY <1>1, RequestFields DEF IInv
  <2>3. /\ object' \in [Handle -> Object]
        /\ \A h \in Handle : object'[h] = IF h = handle THEN [object[h] EXCEPT !.color = color]
                                          ELSE object[h]
    BY <1>4, <2>2 DEF IInv, TypeOK, Object
  <2>4. TypeOK' /\ Templates'
    BY <1>1, <1>2, <1>4, <2>3, AdvanceTyped DEF Stage, IInv, TypeOK
  <2>5. Distinct'
    BY <1>1 DEF IInv, Distinct
  <2>6. Control'
    BY <1>1, <2>1 DEF IInv, Control, StillApplied, AppliedHandles, Writes
  <2>7. Marks'
    BY <2>1, AnswersDiffer DEF Marks, UpdateIsShown
  <2>8. ASSUME NamesDiffer
        PROVE  Progress'
    <3>1. Shown = op.before
      BY <1>1, <2>8 DEF IInv, Progress
    <3>2. ASSUME NEW p \in Place
          PROVE  /\ applied[p] = handle => op.before[p] # None
                 /\ Shown'[p] = IF applied[p] = handle
                                THEN [op.before[p] EXCEPT !.color = color] ELSE op.before[p]
      <4>1. CASE applied[p] = None
        <5>1. handle # None
          BY <2>2, NoneAssumption
        <5> QED
          BY <1>1, <3>1, <4>1, <5>1 DEF Shown
      <4>2. CASE applied[p] # None
        <5>1. applied[p] \in Handle /\ op.before[p] = object[applied[p]]
          BY <3>1, <4>2, ShownType DEF IInv
        <5>2. Shown'[p] = object'[applied[p]]
          BY <1>1, <4>2 DEF Shown
        <5>3. op.before[p] # None
          BY <5>1, OperationAssumption DEF IInv, TypeOK
        <5> QED
          BY <2>3, <5>1, <5>2, <5>3
      <4> QED
        BY <4>1, <4>2
    <3> QED
      BY <1>1, <2>1, <3>2, AnswersDiffer DEF Progress, FailureChangesNothing
  <2> QED
    BY <2>4, <2>5, <2>6, <2>7, <2>8 DEF IInv
<1> QED
  BY <1>3, <1>4 DEF WriteColor

\* The fields of the material are written, or a write is not confirmed.
LEMMA WriteMaterialKeeps ==
  ASSUME IInv, WriteMaterial
  PROVE  IInv'
<1> DEFINE handle == op.request.handle
           color == op.request.color
<1>1. /\ op # None /\ op.kind = "appearance" /\ op.at = "colored"
      /\ UNCHANGED <<applied, external, template, updated, overlay, changes>>
  BY DEF WriteMaterial, At
<1>2. template' = DefaultColor
  BY <1>1, TemplateIsOwn
<1>3. CASE Fail("writeMaterial", "failed") /\ UNCHANGED object
  BY <1>1, <1>2, <1>3, FailKeeps DEF storeVars
<1>4. CASE object' = [object EXCEPT ![handle].material = "default"] /\ Advance("written")
  <2>1. /\ op' # None /\ op'.kind = "appearance" /\ op'.request = op.request
        /\ op'.at = "written" /\ op'.result = None /\ op'.before = op.before
    BY <1>1, <1>4, AdvanceOp DEF IInv, Stage
  <2>2. handle \in Handle /\ color \in RawColor \cup Color
    BY <1>1, RequestFields DEF IInv
  <2>3. /\ object' \in [Handle -> Object]
        /\ \A h \in Handle : object'[h] = IF h = handle
                                          THEN [object[h] EXCEPT !.material = "default"]
                                          ELSE object[h]
    BY <1>4, <2>2 DEF IInv, TypeOK, Object, Material
  <2>4. TypeOK' /\ Templates'
    BY <1>1, <1>2, <1>4, <2>3, AdvanceTyped DEF Stage, IInv, TypeOK
  <2>5. Distinct'
    BY <1>1 DEF IInv, Distinct
  <2>6. Control' /\ Writes
    BY <1>1, <2>1 DEF IInv, Control, Writes, Mutation, Kind
  <2>7. Marks'
    BY <2>1, AnswersDiffer DEF Marks, UpdateIsShown
  <2>8. ASSUME NamesDiffer
        PROVE  Progress'
    <3>1. \A p \in Place :
            /\ applied[p] = handle => op.before[p] # None
            /\ Shown[p] = IF applied[p] = handle
                          THEN [op.before[p] EXCEPT !.color = color] ELSE op.before[p]
      BY <1>1, <2>8 DEF IInv, Progress
    <3>2. ASSUME NEW p \in Place
          PROVE  Shown'[p] = IF applied[p] = handle
                             THEN [op.before[p] EXCEPT !.color = color,
                                                       !.material = "default"]
                             ELSE op.before[p]
      <4>1. CASE applied[p] = None
        <5>1. handle # None
          BY <2>2, NoneAssumption
        <5> QED
          BY <1>1, <3>1, <4>1, <5>1 DEF Shown
      <4>2. CASE applied[p] # None
        <5>1. applied[p] \in Handle /\ Shown[p] = object[applied[p]]
          BY <4>2, ShownType DEF IInv
        <5>2. Shown'[p] = object'[applied[p]]
          BY <1>1, <4>2 DEF Shown
        <5>3. CASE applied[p] = handle
          <6>1. op.before[p] \in Object
            <7>1. op.before[p] \in OptionalOf(Object) /\ object[handle] \in Object
              BY <1>1, <2>2 DEF IInv, TypeOK, Operation, OptionalOf
            <7>2. op.before[p] # None
              BY <3>1, <5>3
            <7> QED
              BY <7>1, <7>2 DEF OptionalOf
          <6>2. object[handle] = [op.before[p] EXCEPT !.color = color]
            BY <3>1, <5>1, <5>3
          <6> QED
            BY <2>3, <5>1, <5>2, <5>3, <6>1, <6>2 DEF Object
        <5>4. CASE applied[p] # handle
          BY <2>3, <3>1, <5>1, <5>2, <5>4
        <5> QED
          BY <5>3, <5>4
      <4> QED
        BY <4>1, <4>2
    <3>3. (\A p \in Place :
             Shown[p] = IF op.kind # "apply" /\ ~Writes THEN op.before[p]
                        ELSE Wanted(op.request, op.kind, p))'
      BY <1>1, <2>1, <2>6, <3>2 DEF Wanted, Writes
    <3> QED
      BY <1>1, <1>4, <3>3, WrittenProgress
  <2> QED
    BY <2>4, <2>5, <2>6, <2>7, <2>8 DEF IInv
<1> QED
  BY <1>3, <1>4 DEF WriteMaterial

\* The actor is marked, or the mark is lost.
LEMMA MarkKeeps ==
  ASSUME IInv, NEW kind \in Mutation, MarkActorUpdated(kind)
  PROVE  IInv'
<1>1. /\ op # None /\ op.kind = kind /\ op.at \in {"written", "entered"}
      /\ op.at = "entered" => kind # "apply" /\ ~Writes
      /\ UNCHANGED <<storeVars, external, template, overlay, changes>>
  BY DEF MarkActorUpdated, SynchronizeOnly, At
<1>2. template' = DefaultColor /\ applied' = applied /\ object' = object
  BY <1>1, TemplateIsOwn DEF storeVars
<1>3. ASSUME Advance("marked"), updated' \in BOOLEAN,
             kind = "appearance" => updated'
      PROVE  IInv'
  <2>1. /\ op' # None /\ op'.kind = kind /\ op'.request = op.request
        /\ op'.at = "marked" /\ op'.result = None /\ op'.before = op.before
    BY <1>1, <1>3, AdvanceOp DEF IInv, Stage
  <2>2. TypeOK' /\ Templates'
    BY <1>1, <1>2, <1>3, AdvanceTyped DEF Stage, IInv, TypeOK
  <2>3. Distinct' /\ Shown' = Shown
    BY <1>2 DEF IInv, Distinct, Shown
  <2>4. Control'
    BY <1>1, <1>2, <2>1 DEF IInv, Control, Target
  <2>5. Marks'
    BY <1>3, <2>1, AnswersDiffer DEF Marks, UpdateIsShown
  <2>6. ASSUME NamesDiffer
        PROVE  Progress'
    <3>1. \A p \in Place :
            Shown[p] = IF op.kind # "apply" /\ ~Writes THEN op.before[p]
                       ELSE Wanted(op.request, op.kind, p)
      <4>1. Progress
        BY <2>6 DEF IInv
      <4>2. CASE op.at = "written"
        BY <1>1, <4>1, <4>2 DEF Progress
      <4>3. CASE op.at = "entered"
        BY <1>1, <4>1, <4>3 DEF Progress
      <4> QED
        BY <1>1, <4>2, <4>3
    <3>2. (\A p \in Place :
             Shown[p] = IF op.kind # "apply" /\ ~Writes THEN op.before[p]
                        ELSE Wanted(op.request, op.kind, p))'
      <4>1. ASSUME NEW p \in Place
            PROVE  Wanted(op.request, op.kind, p)' = Wanted(op.request, op.kind, p)
        BY <1>2, <1>1, <2>1 DEF Wanted, Target
      <4>2. Writes' = Writes /\ op'.kind = op.kind /\ op'.before = op.before
        BY <1>1, <2>1 DEF Writes
      <4> QED
        BY <2>3, <3>1, <4>1, <4>2
    <3> QED
      BY <1>1, <1>3, <3>2, WrittenProgress
  <2> QED
    BY <2>2, <2>3, <2>4, <2>5, <2>6 DEF IInv
<1>4. CASE updated' = TRUE /\ Advance("marked")
  BY <1>3, <1>4
<1>5. CASE UNCHANGED updated /\ ReadsMarkBack(kind) /\ Answer([error |-> "failed"])
  <2>1. kind = "appearance"
    BY <1>5 DEF ReadsMarkBack
  <2>2. [error |-> "failed"] \in Results(op.kind, op.request)
    BY <1>1, <2>1, ResultsAreResults DEF Kind
  <2> QED
    BY <1>1, <1>2, <1>5, <2>1, <2>2, AnswersDiffer, AnswerKeeps
<1>6. CASE UNCHANGED updated /\ ~ReadsMarkBack(kind) /\ Advance("marked")
  BY <1>3, <1>6 DEF ReadsMarkBack, IInv, TypeOK
<1> QED
  BY <1>4, <1>5, <1>6 DEF MarkActorUpdated

\* The synchronization ends the operation.
LEMMA SynchronizeKeeps ==
  ASSUME IInv, NEW kind \in Mutation, Synchronize(kind)
  PROVE  IInv'
<1>1. /\ op # None /\ op.kind = kind /\ op.at = "marked"
      /\ UNCHANGED <<storeVars, external, template, changes>>
  BY DEF Synchronize, At
<1>2. template' = DefaultColor /\ applied' = applied /\ object' = object
  BY <1>1, TemplateIsOwn DEF storeVars
<1>3. Distinct' /\ Shown' = Shown
  BY <1>2 DEF IInv, Distinct, Shown
<1>4. ASSUME NEW r \in {[error |-> None], [error |-> "synchronizeFailed"]}, Answer(r),
             overlay' = IF r = [error |-> None] /\ updated THEN Shown ELSE overlay,
             updated' \in BOOLEAN
      PROVE  IInv'
  <2>1. r \in Results(op.kind, op.request) /\ r \in AnyResult
    <3>1. op.kind \in Kind /\ op.kind # "query" /\ op.kind \in Mutation
      BY <1>1 DEF Mutation
    <3> QED
      BY <3>1, ResultsAreResults
  <2>2. /\ op' \in Operation /\ op' # None
        /\ op'.kind = op.kind /\ op'.request = op.request
        /\ op'.at = "answered" /\ op'.result = r /\ r # None
        /\ op'.before = op.before
    BY <1>1, <1>4, <2>1, AnswerOp DEF IInv
  <2>3. TypeOK'
    <3>1. overlay' \in [Place -> OptionalOf(Object)]
      BY <1>4, ShownType DEF IInv, TypeOK
    <3>2. template' \in [Tattoo -> RawColor \cup Color]
      BY <1>2, DefaultColorAssumption
    <3>3. op'.request \in Request(op'.kind)
      BY <1>1, <2>2, RequestFields DEF IInv
    <3> QED
      BY <1>1, <1>2, <1>4, <2>1, <2>2, <3>1, <3>2, <3>3 DEF IInv, TypeOK, OptionalOf
  <2>4. Control'
    BY <1>1, <1>2, <2>2 DEF IInv, Control, Target
  <2>5. Templates'
    BY <1>2, <2>2 DEF Templates, TemplatesRestored
  <2>6. Marks'
    <3>1. op.kind = "appearance" => updated
      BY <1>1 DEF IInv, Marks
    <3> QED
      BY <1>3, <1>4, <2>2, <3>1 DEF Marks, UpdateIsShown
  <2>7. ASSUME NamesDiffer
        PROVE  Progress'
    <3>1. \A p \in Place :
            Shown[p] = IF op.kind # "apply" /\ ~Writes THEN op.before[p]
                       ELSE Wanted(op.request, op.kind, p)
      <4>1. Progress
        BY <2>7 DEF IInv
      <4> QED
        BY <1>1, <4>1 DEF Progress
    <3>2. (\A p \in Place :
             Shown[p] = IF op.kind # "apply" /\ ~Writes THEN op.before[p]
                        ELSE Wanted(op.request, op.kind, p))'
      <4>1. ASSUME NEW p \in Place
            PROVE  Wanted(op.request, op.kind, p)' = Wanted(op.request, op.kind, p)
        BY <1>2, <1>1, <2>2 DEF Wanted, Target
      <4>2. Writes' = Writes /\ op'.kind = op.kind /\ op'.before = op.before
        BY <1>1, <2>2 DEF Writes
      <4> QED
        BY <1>3, <3>1, <4>1, <4>2
    <3>3. FailureChangesNothing'
      BY <2>2, AnswersDiffer DEF FailureChangesNothing
    <3> QED
      BY <2>2, <3>2, <3>3 DEF Progress
  <2> QED
    BY <1>3, <2>3, <2>4, <2>5, <2>6, <2>7 DEF IInv
<1>5. CASE Fail("synchronize", "synchronizeFailed") /\ UNCHANGED <<updated, overlay>>
  BY <1>4, <1>5, AnswersDiffer DEF Fail, IInv, TypeOK
<1>6. CASE /\ overlay' = IF updated THEN Shown ELSE overlay
           /\ updated' = FALSE
           /\ Answer([error |-> None])
  BY <1>4, <1>6
<1> QED
  BY <1>5, <1>6 DEF Synchronize

\* The answer is handed over.
LEMMA ReturnKeeps ==
  ASSUME IInv, Return
  PROVE  IInv'
<1>1. /\ op # None /\ op.at = "answered" /\ op' = None
      /\ UNCHANGED <<applied, object, external, template, updated, overlay, changes>>
  BY DEF Return, IInv, TypeOK, storeVars
<1>2. template' = DefaultColor
  BY <1>1, TemplateIsOwn
<1> QED
  BY <1>1, <1>2
     DEF IInv, TypeOK, OptionalOf, Distinct, Control, Templates, TemplatesRestored,
         Marks, UpdateIsShown, Progress

\* Other mods act between two operations.
LEMMA OthersKeep ==
  ASSUME IInv, NEW place \in Place,
         \/ \E t \in Tattoo : OtherModApplies(place, t)
         \/ OtherModRemoves(place)
         \/ ExternalOverlay(place)
  PROVE  IInv'
<1>1. op = None /\ op' = None /\ template' = template /\ changes' \in 0 .. MaxChanges
  BY MaxChangesAssumption
     DEF OtherModApplies, OtherModRemoves, ExternalOverlay, Others, IInv, TypeOK
<1>2. template' = DefaultColor
  BY <1>1, TemplateIsOwn
<1>3. ASSUME applied' \in [Place -> OptionalOf(Handle)], object' \in [Handle -> Object],
             Distinct', external' \subseteq Place, updated' \in BOOLEAN,
             overlay' = Shown' \/ overlay' = overlay
      PROVE  IInv'
  <2>1. overlay' \in [Place -> OptionalOf(Object)]
    <3>1. Shown' \in [Place -> OptionalOf(Object)]
      BY <1>3 DEF Shown, OptionalOf
    <3> QED
      BY <1>3, <3>1 DEF IInv, TypeOK
  <2>2. template' \in [Tattoo -> RawColor \cup Color]
    BY <1>2, DefaultColorAssumption
  <2> QED
    BY <1>1, <1>2, <1>3, <2>1, <2>2
       DEF IInv, TypeOK, OptionalOf, Control, Templates, TemplatesRestored, Marks,
           UpdateIsShown, Progress
<1>4. ASSUME NEW t \in Tattoo, OtherModApplies(place, t)
      PROVE  IInv'
  <2>1. PICK h \in Handle \ AppliedHandles : Wear(place, h, Catalogued(t))
    BY <1>4 DEF OtherModApplies
  <2>2. Catalogued(t) \in Object
    BY ForeignType
  <2>3. /\ applied' \in [Place -> OptionalOf(Handle)] /\ object' \in [Handle -> Object]
        /\ Distinct'
    BY <2>1, <2>2, WearStores DEF IInv
  <2> QED
    BY <1>3, <1>4, <2>3 DEF OtherModApplies, IInv, TypeOK
<1>5. CASE OtherModRemoves(place)
  <2>1. /\ applied' \in [Place -> OptionalOf(Handle)] /\ object' \in [Handle -> Object]
        /\ Distinct'
    BY <1>5, TakeOffStores DEF OtherModRemoves, IInv
  <2> QED
    BY <1>3, <1>5, <2>1 DEF OtherModRemoves, IInv, TypeOK
<1>6. CASE ExternalOverlay(place)
  <2>1. applied' = applied /\ object' = object /\ updated' = updated /\ overlay' = overlay
    BY <1>6 DEF ExternalOverlay, storeVars
  <2>2. external' \subseteq Place
    BY <1>6 DEF ExternalOverlay, IInv, TypeOK
  <2>3. Distinct'
    BY <2>1 DEF IInv, Distinct
  <2> QED
    BY <1>3, <2>1, <2>2, <2>3 DEF IInv, TypeOK
<1> QED
  BY <1>4, <1>5, <1>6

\* The store is consistent, nothing is marked and no operation runs.
LEMMA InitHolds == Init => IInv
<1> SUFFICES ASSUME Init PROVE IInv
  OBVIOUS
<1>1. /\ applied \in [Place -> OptionalOf(Handle)] /\ HandlesDistinct
      /\ object \in [Handle -> {Catalogued(t) : t \in Tattoo} \cup {Foreign}]
      /\ external \subseteq Place /\ template = DefaultColor /\ updated = FALSE
      /\ overlay = Shown /\ op = None /\ changes = 0
  BY DEF Init
<1>2. object \in [Handle -> Object]
  BY <1>1, ForeignType
<1>3. Shown \in [Place -> OptionalOf(Object)]
  BY <1>1, <1>2 DEF Shown, OptionalOf
<1>4. TypeOK
  <2>1. template \in [Tattoo -> RawColor \cup Color]
    BY <1>1, DefaultColorAssumption
  <2>2. changes \in 0 .. MaxChanges
    BY <1>1, MaxChangesAssumption
  <2>3. overlay \in [Place -> OptionalOf(Object)]
    BY <1>1, <1>3
  <2>4. op \in OptionalOf(Operation)
    BY <1>1 DEF OptionalOf
  <2> QED
    BY <1>1, <1>2, <2>1, <2>2, <2>3, <2>4 DEF TypeOK
<1>5. Distinct
  BY <1>1 DEF HandlesDistinct, Distinct
<1> QED
  BY <1>1, <1>4, <1>5
     DEF IInv, Control, Templates, TemplatesRestored, Marks, UpdateIsShown, Progress

\* Every step keeps the invariant.
LEMMA NextKeeps == IInv /\ [Next]_backendVars => IInv'
<1> SUFFICES ASSUME IInv, [Next]_backendVars PROVE IInv'
  OBVIOUS
<1>1. ASSUME NEW kind \in Kind, NEW request \in Issuable(kind), Begin(kind, request)
      PROVE  IInv'
  BY <1>1, BeginKeeps
<1>2. ASSUME NEW kind \in Kind, Refuse(kind)
      PROVE  IInv'
  BY <1>2, RefuseKeeps
<1>3. CASE QuerySlots
  BY <1>3, QueryKeeps
<1>4. CASE FindTemplate
  BY <1>4, FindTemplateKeeps
<1>5. CASE AddTattoo
  BY <1>5, AddTattooKeeps
<1>6. CASE RemoveTattoo
  BY <1>6, RemoveTattooKeeps
<1>7. CASE CheckMembership
  BY <1>7, CheckMembershipKeeps
<1>8. CASE WriteColor
  BY <1>8, WriteColorKeeps
<1>9. CASE WriteMaterial
  BY <1>9, WriteMaterialKeeps
<1>10. ASSUME NEW kind \in Mutation, MarkActorUpdated(kind)
       PROVE  IInv'
  BY <1>10, MarkKeeps
<1>11. ASSUME NEW kind \in Mutation, Synchronize(kind)
       PROVE  IInv'
  BY <1>11, SynchronizeKeeps
<1>12. CASE Return
  BY <1>12, ReturnKeeps
<1>13. CASE Environment
  BY <1>13, OthersKeep DEF Environment
<1>14. CASE UNCHANGED backendVars
  <2>1. UNCHANGED <<applied, object, external, template, updated, overlay, op, changes>>
    BY <1>14 DEF backendVars
  <2>2. Shown' = Shown
    BY <2>1 DEF Shown
  <2>3. TypeOK' /\ Distinct' /\ Control' /\ Templates' /\ Marks'
    BY <2>1, <2>2
       DEF IInv, TypeOK, Distinct, Control, Target, StillApplied, AppliedHandles, Writes,
           Templates, TemplatesRestored, Marks, UpdateIsShown
  <2>4. NamesDiffer => Progress'
    <3>1. \A p \in Place : Wanted(op.request, op.kind, p)' = Wanted(op.request, op.kind, p)
      BY <2>1 DEF Wanted, Target
    <3> QED
      BY <2>1, <2>2, <3>1 DEF IInv, Progress, FailureChangesNothing, Writes
  <2> QED
    BY <2>3, <2>4 DEF IInv
<1>15. CASE Step
  BY <1>2, <1>3, <1>4, <1>5, <1>6, <1>7, <1>8, <1>9, <1>10, <1>11, <1>15 DEF Step
<1> QED
  BY <1>1, <1>12, <1>13, <1>14, <1>15 DEF Next

\* The invariant holds throughout.
THEOREM Invariance == Spec => []IInv
BY InitHolds, NextKeeps, PTL DEF Spec

-----------------------------------------------------------------------------
(* What follows from it.                                                   *)

\* Every part of the store, the actor and the operation keeps its type.
THEOREM BackendTyped == Spec => []TypeOK
<1>1. IInv => TypeOK
  BY DEF IInv
<1> QED
  BY <1>1, Invariance, PTL

\* Whatever fails, the template of the catalog has its own appearance again
\* (TattooTemplateAppearanceGuard).
THEOREM TemplatesAreRestored == Spec => []TemplatesRestored
<1>1. IInv => TemplatesRestored
  BY DEF IInv, Templates
<1> QED
  BY <1>1, Invariance, PTL

\* An update that reports success is visible (updateTattooAppearance reads
\* its mark back).
THEOREM UpdatesAreShown == Spec => []UpdateIsShown
<1>1. IInv => UpdateIsShown
  BY DEF IInv, Marks
<1> QED
  BY <1>1, Invariance, PTL

\* A success means that what was asked for is stored and nothing else
\* changed, if no two tattoos share a section and a name.
THEOREM SuccessesAreStored ==
  ASSUME NamesDiffer
  PROVE  Spec => []SuccessIsStored
<1>1. IInv => SuccessIsStored
  BY DEF IInv, Progress, SuccessIsStored
<1> QED
  BY <1>1, Invariance, PTL

\* No operation touches a place of another mod, if no two tattoos share a
\* section and a name.
THEOREM ExternalIsUntouched ==
  ASSUME NamesDiffer
  PROVE  Spec => ExternalUntouched
<1>1. IInv /\ [Next]_backendVars
        => [op # None => \A p \in external : applied'[p] = applied[p]]_backendVars
  <2> SUFFICES ASSUME IInv, Next, op # None, NEW p \in external
               PROVE  applied'[p] = applied[p]
    OBVIOUS
  <2>1. applied \in [Place -> OptionalOf(Handle)] /\ p \in Place
    BY DEF IInv, TypeOK
  <2>2. CASE AddTattoo
    <3>1. op.kind = "apply" /\ op.at = "templated"
      BY <2>2 DEF AddTattoo, At
    <3>2. /\ op.request.tattoo \in Tattoo /\ Target \notin external
          /\ TattooArea[op.request.tattoo] = op.request.area
      BY <3>1, RequestFields DEF IInv, Control
    <3>3. <<TattooArea[Listed[op.request.tattoo]], op.request.slot>> = Target
      BY <3>2 DEF NamesDiffer, Target
    <3>4. p # <<TattooArea[Listed[op.request.tattoo]], op.request.slot>>
      BY <3>2, <3>3
    <3> QED
      BY <2>1, <2>2, <3>4 DEF AddTattoo, Wear, storeVars
  <2>3. CASE RemoveTattoo
    <3>1. p # Target
      BY <2>3 DEF RemoveTattoo, TakenByOthers
    <3> QED
      BY <2>1, <2>3, <3>1 DEF RemoveTattoo, TakeOff, storeVars
  <2>4. CASE ~AddTattoo /\ ~RemoveTattoo
    BY <2>4
       DEF Next, Begin, Step, Refuse, QuerySlots, FindTemplate, CheckMembership,
           WriteColor, WriteMaterial, MarkActorUpdated, Synchronize, Return, Environment,
           OtherModApplies, OtherModRemoves, ExternalOverlay, Others, storeVars
  <2> QED
    BY <2>2, <2>3, <2>4
<1> QED
  BY <1>1, Invariance, PTL DEF Spec, ExternalUntouched

\* An appearance is only written to a tattoo the actor wears.
THEOREM StaleHandleIsUntouched == Spec => StaleHandleUntouched
<1>1. IInv /\ [Next]_backendVars
        => [op # None /\ op.kind = "appearance" =>
              \A h \in Handle : object'[h] # object[h] => h \in AppliedHandles]_backendVars
  <2> SUFFICES ASSUME IInv, Next, op # None, op.kind = "appearance",
                      NEW h \in Handle, object'[h] # object[h]
               PROVE  h \in AppliedHandles
    OBVIOUS
  <2>1. CASE WriteColor \/ WriteMaterial
    <3>1. op.at \in {"member", "colored"}
      BY <2>1 DEF WriteColor, WriteMaterial, At
    <3>2. op.request.handle \in AppliedHandles
      BY <3>1 DEF IInv, Control, StillApplied
    <3>3. h = op.request.handle
      BY <2>1 DEF WriteColor, WriteMaterial, IInv, TypeOK
    <3> QED
      BY <3>2, <3>3
  <2>2. CASE ~(WriteColor \/ WriteMaterial)
    BY <2>2
       DEF Next, Begin, Step, Refuse, QuerySlots, FindTemplate, AddTattoo, RemoveTattoo,
           At, CheckMembership, MarkActorUpdated, Synchronize, Return, Environment,
           OtherModApplies, OtherModRemoves, ExternalOverlay, Others, storeVars
  <2> QED
    BY <2>1, <2>2
<1> QED
  BY <1>1, Invariance, PTL DEF Spec, StaleHandleUntouched

-----------------------------------------------------------------------------
(* A failure changes nothing, whichever tattoos share their names.         *)

\* Nothing is stored before the tattoo is added or taken off.
Untouched ==
  /\ op # None /\ op.at \in {"entered", "templated"} => Shown = op.before
  /\ FailureChangesNothing

\* Every step keeps it.
LEMMA UntouchedKept == IInv /\ Untouched /\ [Next]_backendVars => Untouched'
<1> SUFFICES ASSUME IInv, Untouched, [Next]_backendVars PROVE Untouched'
  OBVIOUS
<1>1. ASSUME NEW kind \in Kind, NEW request \in Issuable(kind), Begin(kind, request)
      PROVE  Untouched'
  <2>1. Shown' = Shown
    BY <1>1 DEF Begin, storeVars, Shown
  <2>2. op'.at = "entered" /\ op'.before = Shown /\ op'.result = None
    BY <1>1 DEF Begin
  <2> QED
    BY <2>1, <2>2, AnswersDiffer DEF Untouched, FailureChangesNothing
<1>2. ASSUME NEW step \in Stage \ {"entered", "templated", "answered"}, Advance(step),
             op # None, op.at # "answered"
      PROVE  Untouched'
  <2>1. op'.at = step /\ op'.result = None
    BY <1>2, AdvanceOp DEF IInv
  <2> QED
    BY <2>1, AnswersDiffer DEF Untouched, FailureChangesNothing
<1>3. ASSUME NEW r \in Results(op.kind, op.request), Answer(r), op # None, op.at # "answered",
             \/ op.kind \notin {"apply", "remove"} \/ r # [error |-> "failed"]
             \/ op.at \in {"entered", "templated"} /\ UNCHANGED storeVars
      PROVE  Untouched'
  <2>1. op.kind \in Kind /\ (op.request.area \in Area \/ op.kind # "query")
    BY <1>3, RequestFields DEF IInv
  <2>2. r \in AnyResult
    BY <2>1, ResultsAreResults
  <2>3. /\ op'.kind = op.kind /\ op'.at = "answered" /\ op'.result = r
        /\ op'.before = op.before
    BY <1>3, <2>2, AnswerOp DEF IInv
  <2>4. UNCHANGED storeVars => Shown' = Shown
    BY DEF storeVars, Shown
  <2> QED
    BY <1>3, <2>3, <2>4 DEF Untouched, FailureChangesNothing
<1>4. ASSUME op # None, op.kind \in Kind \ {"query"},
             Answer([error |-> "failed"]), op.at # "answered",
             \/ op.kind = "appearance"
             \/ op.at \in {"entered", "templated"} /\ UNCHANGED storeVars
      PROVE  Untouched'
  BY <1>3, <1>4, ResultsAreResults
<1>5. ASSUME NEW kind \in Kind, Refuse(kind)
      PROVE  Untouched'
  <2>1. /\ op # None /\ op.kind = kind /\ op.at = "entered" /\ UNCHANGED storeVars
        /\ op.request.area \in Area \/ op.kind # "query"
    BY <1>5, RequestFields DEF Refuse, At, IInv
  <2>2. /\ [error |-> "failed"] \in Results(op.kind, op.request)
        /\ [error |-> ExceptionError(kind, op.request)] \in Results(op.kind, op.request)
    BY <2>1, ResultsAreResults
  <2> QED
    BY <1>3, <1>5, <2>1, <2>2 DEF Refuse, Fail
<1>6. CASE QuerySlots
  <2>1. op # None /\ op.kind = "query" /\ op.at = "entered"
        /\ Answer([error |-> None, slots |-> Report(op.request.area)])
    BY <1>6 DEF QuerySlots, At
  <2>2. Report(op.request.area) \in Snapshot(op.request.area)
    BY <2>1, RequestFields, ReportType DEF IInv
  <2>3. [error |-> None, slots |-> Report(op.request.area)] \in Results(op.kind, op.request)
    BY <2>1, <2>2 DEF Results
  <2> QED
    BY <1>3, <2>1, <2>3
<1>7. CASE FindTemplate
  <2>1. /\ op # None /\ op.kind = "apply" /\ op.at = "entered" /\ UNCHANGED storeVars
        /\ Shown' = Shown
    BY <1>7 DEF FindTemplate, At, storeVars, Shown
  <2>2. CASE Fail("queryAvailable", "failed")
    BY <1>4, <2>1, <2>2 DEF Fail, Kind
  <2>3. CASE op' = [op EXCEPT !.at = "templated",
                              !.saved = template[Listed[op.request.tattoo]]]
    <3>1. op'.before = op.before /\ op'.result = None
      BY <2>1, <2>3 DEF IInv, TypeOK, OptionalOf, Operation
    <3> QED
      BY <2>1, <3>1, AnswersDiffer DEF Untouched, FailureChangesNothing
  <2> QED
    BY <1>7, <2>2, <2>3 DEF FindTemplate
<1>8. CASE AddTattoo
  BY <1>2, <1>4, <1>8 DEF AddTattoo, At, Fail, Kind, Stage
<1>9. CASE RemoveTattoo
  BY <1>2, <1>4, <1>9 DEF RemoveTattoo, At, Fail, Kind, Stage
<1>10. CASE CheckMembership
  BY <1>2, <1>4, <1>10 DEF CheckMembership, At, Fail, Kind, Stage
<1>11. CASE WriteColor
  BY <1>2, <1>4, <1>11 DEF WriteColor, At, Fail, Kind, Stage
<1>12. CASE WriteMaterial
  BY <1>2, <1>4, <1>12 DEF WriteMaterial, At, Fail, Kind, Stage
<1>13. ASSUME NEW kind \in Mutation, MarkActorUpdated(kind)
       PROVE  Untouched'
  <2>1. op # None /\ op.kind = kind /\ op.at # "answered"
    BY <1>13 DEF MarkActorUpdated, SynchronizeOnly, At
  <2> QED
    BY <1>2, <1>4, <1>13, <2>1 DEF MarkActorUpdated, ReadsMarkBack, Kind, Mutation, Stage
<1>14. ASSUME NEW kind \in Mutation, Synchronize(kind)
       PROVE  Untouched'
  <2>1. /\ op # None /\ op.kind = kind /\ op.at = "marked"
        /\ op.kind \in Kind /\ op.kind # "query"
    BY <1>14 DEF Synchronize, At, Mutation
  <2>2. /\ [error |-> "synchronizeFailed"] \in Results(op.kind, op.request)
        /\ [error |-> None] \in Results(op.kind, op.request)
    BY <2>1, ResultsAreResults
  <2> QED
    BY <1>3, <1>14, <2>1, <2>2, AnswersDiffer DEF Synchronize, Fail
<1>15. CASE Return \/ Environment
  <2>1. op' = None
    BY <1>15 DEF Return, Environment, OtherModApplies, OtherModRemoves, ExternalOverlay,
                 Others
  <2> QED
    BY <2>1 DEF Untouched, FailureChangesNothing
<1>16. CASE UNCHANGED backendVars
  <2>1. op' = op /\ Shown' = Shown
    BY <1>16 DEF backendVars, Shown
  <2> QED
    BY <2>1 DEF Untouched, FailureChangesNothing
<1>17. CASE Step
  BY <1>5, <1>6, <1>7, <1>8, <1>9, <1>10, <1>11, <1>12, <1>13, <1>14, <1>17 DEF Step
<1> QED
  BY <1>1, <1>15, <1>16, <1>17 DEF Next

\* A failed application or removal left the actor as it was.
THEOREM FailuresChangeNothing == Spec => []FailureChangesNothing
<1>1. Init => Untouched
  BY DEF Init, Untouched, FailureChangesNothing
<1>2. Untouched => FailureChangesNothing
  BY DEF Untouched
<1> QED
  BY <1>1, <1>2, UntouchedKept, Invariance, PTL DEF Spec
-----------------------------------------------------------------------------
(* What the retry of an operation relies on.                               *)

\* From its first write on, the edited tattoo is worn in the color asked for.
EditedIsStored ==
  op # None /\ op.kind = "appearance" /\ Writes
    /\ (op.at \in {"colored", "written", "marked"} \/ Stored(op.result)) =>
  StillApplied /\ object[op.request.handle].color = op.request.color

\* An operation keeps to its request.
LEMMA StepKeepsRequest ==
  ASSUME TypeOK, Step
  PROVE  op # None /\ (op' # None => op'.kind = op.kind /\ op'.request = op.request)
<1>1. op # None
  BY DEF Step, Refuse, QuerySlots, FindTemplate, AddTattoo, RemoveTattoo, CheckMembership,
         WriteColor, WriteMaterial, MarkActorUpdated, Synchronize, At, SynchronizeOnly
<1>2. op \in Operation
  BY <1>1 DEF TypeOK, OptionalOf
<1>3. ASSUME NEW step, Advance(step)
      PROVE  op'.kind = op.kind /\ op'.request = op.request
  BY <1>2, <1>3 DEF Advance, Operation
<1>4. ASSUME NEW r, Answer(r)
      PROVE  op'.kind = op.kind /\ op'.request = op.request
  BY <1>2, <1>4 DEF Answer, Operation
<1>5. ASSUME FindTemplate, op' = [op EXCEPT !.at = "templated",
                                            !.saved = template[Listed[op.request.tattoo]]]
      PROVE  op'.kind = op.kind /\ op'.request = op.request
  BY <1>2, <1>5 DEF Operation
<1> QED
  BY <1>1, <1>3, <1>4, <1>5
     DEF Step, Refuse, QuerySlots, FindTemplate, AddTattoo, RemoveTattoo, CheckMembership,
         WriteColor, WriteMaterial, MarkActorUpdated, Synchronize, Fail

\* A query and the second half of a mutation alone store nothing.
LEMMA RetriesStoreNothing ==
  ASSUME IInv, op # None, Step,
         op.kind = "query" \/ (op.kind # "apply" /\ ~Writes)
  PROVE  UNCHANGED storeVars
<1>1. op.at \in {"member", "colored"} => Writes /\ op.kind = "appearance"
  BY DEF IInv, Control
<1>2. ~FindTemplate /\ ~AddTattoo /\ ~RemoveTattoo /\ ~WriteColor /\ ~WriteMaterial
  BY <1>1 DEF FindTemplate, AddTattoo, RemoveTattoo, WriteColor, WriteMaterial, At
<1> QED
  BY <1>2 DEF Step, Refuse, QuerySlots, CheckMembership, MarkActorUpdated, Synchronize, storeVars

\* Every step keeps it.
LEMMA EditedKept == IInv /\ EditedIsStored /\ [Next]_backendVars => EditedIsStored'
<1> SUFFICES ASSUME IInv, EditedIsStored, [Next]_backendVars PROVE EditedIsStored'
  OBVIOUS
<1>1. ASSUME NEW kind \in Kind, NEW request \in Issuable(kind), Begin(kind, request)
      PROVE  EditedIsStored'
  <2>1. op'.at = "entered" /\ op'.result = None
    BY <1>1 DEF Begin
  <2> QED
    BY <2>1, AnswersDiffer DEF EditedIsStored
\* An answer after which the store is as it was.
<1>2. ASSUME op # None, op.at # "answered", NEW r \in AnyResult, Answer(r),
             UNCHANGED storeVars,
             op.kind = "appearance" /\ Stored(r) => ~Writes \/ op.at \in {"written", "marked"}
      PROVE  EditedIsStored'
  <2>1. /\ op' # None /\ op'.kind = op.kind /\ op'.request = op.request
        /\ op'.at = "answered" /\ op'.result = r
    BY <1>2, AnswerOp DEF IInv
  <2>2. applied' = applied /\ object' = object
    BY <1>2 DEF storeVars
  <2> QED
    BY <1>2, <2>1, <2>2 DEF EditedIsStored, Writes, StillApplied, AppliedHandles
<1>3. ASSUME op # None, op.at # "answered", NEW step \in Stage \ {"answered"}, Advance(step),
             UNCHANGED storeVars,
             step \notin {"colored", "written", "marked"} \/ op.kind # "appearance" \/ ~Writes
               \/ op.at \in {"colored", "written", "marked"}
      PROVE  EditedIsStored'
  <2>1. /\ op' # None /\ op'.kind = op.kind /\ op'.request = op.request
        /\ op'.at = step /\ op'.result = None
    BY <1>3, AdvanceOp DEF IInv
  <2>2. applied' = applied /\ object' = object
    BY <1>3 DEF storeVars
  <2> QED
    BY <1>3, <2>1, <2>2, AnswersDiffer DEF EditedIsStored, Writes, StillApplied, AppliedHandles
<1>4. CASE op # None /\ op.kind \in {"query", "apply", "remove"} /\ Step
  <2>1. op' # None => op'.kind = op.kind
    BY <1>4
       DEF Step, Refuse, QuerySlots, FindTemplate, AddTattoo, RemoveTattoo, CheckMembership,
           WriteColor, WriteMaterial, MarkActorUpdated, Synchronize, Answer, Advance, Fail, At,
           IInv, TypeOK, OptionalOf, Operation
  <2> QED
    BY <1>4, <2>1 DEF EditedIsStored
<1>5. CASE op # None /\ op.kind = "appearance" /\ Step
  <2> [error |-> "failed"] \in AnyResult /\ [error |-> "synchronizeFailed"] \in AnyResult
      /\ [error |-> None] \in AnyResult
    BY DEF AnyResult, OptionalOf, Error
  <2>1. ASSUME NEW kind \in Kind, Refuse(kind)
        PROVE  EditedIsStored'
    <3>1. /\ op.at = "entered" /\ op.kind = kind /\ UNCHANGED storeVars
          /\ ExceptionError(kind, op.request) = "failed" \/ ~Writes
          /\ [error |-> ExceptionError(kind, op.request)] \in AnyResult
      BY <1>5, <2>1 DEF Refuse, At, ExceptionError, Writes
    <3>2. \/ Answer([error |-> ExceptionError(kind, op.request)])
          \/ Answer([error |-> "failed"])
      BY <2>1 DEF Refuse, Fail
    <3> QED
      BY <1>2, <1>5, <3>1, <3>2, AnswersDiffer
  <2>2. CASE CheckMembership
    BY <1>2, <1>3, <1>5, <2>2, AnswersDiffer DEF CheckMembership, At, Fail, Stage
  <2>3. CASE WriteColor
    <3>1. /\ op.at = "member" /\ StillApplied /\ op.request.handle \in Handle
          /\ object \in [Handle -> Object]
      BY <1>5, <2>3, RequestFields DEF WriteColor, At, IInv, Control, TypeOK
    <3>2. CASE Fail("writeColor", "failed") /\ UNCHANGED object
      BY <1>2, <1>5, <2>3, <3>1, <3>2, AnswersDiffer DEF WriteColor, Fail, storeVars
    <3>3. CASE /\ object' = [object EXCEPT ![op.request.handle].color = op.request.color]
               /\ Advance("colored")
      <4>1. op' # None /\ op'.request = op.request
        BY <1>5, <3>1, <3>3, AdvanceOp DEF IInv, Stage
      <4>2. object[op.request.handle] \in Object
        BY <3>1
      <4>3. object'[op.request.handle].color = op.request.color
        BY <3>1, <3>3, <4>2 DEF Object
      <4>4. applied' = applied
        BY <2>3 DEF WriteColor
      <4> QED
        BY <3>1, <4>1, <4>3, <4>4 DEF EditedIsStored, StillApplied, AppliedHandles
    <3> QED
      BY <2>3, <3>2, <3>3 DEF WriteColor
  <2>4. CASE WriteMaterial
    <3>1. /\ op.at = "colored" /\ op.kind = "appearance" /\ op.request.handle \in Handle
          /\ object \in [Handle -> Object] /\ Writes
      BY <1>5, <2>4, RequestFields DEF WriteMaterial, At, IInv, Control, TypeOK
    <3>2. CASE Fail("writeMaterial", "failed") /\ UNCHANGED object
      BY <1>2, <1>5, <2>4, <3>1, <3>2, AnswersDiffer DEF WriteMaterial, Fail, storeVars
    <3>3. CASE /\ object' = [object EXCEPT ![op.request.handle].material = "default"]
               /\ Advance("written")
      <4>1. op' # None /\ op'.request = op.request
        BY <1>5, <3>1, <3>3, AdvanceOp DEF IInv, Stage
      <4>2. object[op.request.handle] \in Object
        BY <3>1
      <4>3. object'[op.request.handle].color = object[op.request.handle].color
        BY <3>1, <3>3, <4>2 DEF Object
      <4>4. applied' = applied
        BY <2>4 DEF WriteMaterial
      <4>5. StillApplied /\ object[op.request.handle].color = op.request.color
        BY <1>5, <3>1 DEF EditedIsStored
      <4> QED
        BY <4>1, <4>3, <4>4, <4>5 DEF EditedIsStored, StillApplied, AppliedHandles
    <3> QED
      BY <2>4, <3>2, <3>3 DEF WriteMaterial
  <2>5. ASSUME NEW kind \in Mutation, MarkActorUpdated(kind)
        PROVE  EditedIsStored'
    <3>1. op.kind = kind /\ (op.at = "written" \/ (op.at = "entered" /\ ~Writes))
      BY <2>5 DEF MarkActorUpdated, SynchronizeOnly, At
    <3> QED
      BY <1>2, <1>3, <1>5, <2>5, <3>1, AnswersDiffer
         DEF MarkActorUpdated, ReadsMarkBack, Stage
  <2>6. ASSUME NEW kind \in Mutation, Synchronize(kind)
        PROVE  EditedIsStored'
    BY <1>2, <1>5, <2>6 DEF Synchronize, Fail, At
  <2>7. ~QuerySlots /\ ~FindTemplate /\ ~AddTattoo /\ ~RemoveTattoo
    BY <1>5 DEF QuerySlots, FindTemplate, AddTattoo, RemoveTattoo, At
  <2> QED
    BY <1>5, <2>1, <2>2, <2>3, <2>4, <2>5, <2>6, <2>7 DEF Step
<1>6. CASE Return \/ Environment
  <2>1. op' = None
    BY <1>6 DEF Return, Environment, OtherModApplies, OtherModRemoves, ExternalOverlay,
                Others
  <2> QED
    BY <2>1 DEF EditedIsStored
<1>7. CASE UNCHANGED backendVars
  BY <1>7 DEF EditedIsStored, backendVars, Writes, StillApplied, AppliedHandles
<1>8. Step => op # None /\ op.kind \in Kind
  <2>1. Step => op # None
    BY DEF Step, Refuse, QuerySlots, FindTemplate, AddTattoo, RemoveTattoo, CheckMembership,
           WriteColor, WriteMaterial, MarkActorUpdated, Synchronize, At, SynchronizeOnly
  <2> QED
    BY <2>1, RequestFields DEF IInv
<1> QED
  BY <1>1, <1>4, <1>5, <1>6, <1>7, <1>8 DEF Next, Kind
=============================================================================
