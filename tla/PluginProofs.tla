---------------------------- MODULE PluginProofs ----------------------------
(***************************************************************************)
(* The hotkey and the bindings of the plugin, for any range of key codes,  *)
(* any files the user may write and any versions of the interface.         *)
(***************************************************************************)
EXTENDS Plugin, TLAPS

\* The file is empty from the moment a save opens it to its end.
OpenedEmptied == op # None /\ op.stage \in {"open", "written"} => file = Broken

\* Settings to keep are in the file, or in the hands of the save under way.
SettingsHeld ==
  settings =>
    \/ Intact /\ file.others
    \/ op # None /\ op.stage \in {"open", "written"} /\ op.others

\* The variables of the hotkey have their types.
HotkeyTyped ==
  /\ file \in {None, Broken} \cup Stored /\ key \in Key \cup {None}
  /\ acknowledged \in Key \cup {None} /\ owed \subseteq Key \cup {None}
  /\ op \in Operation \cup {None}
  /\ settings \in BOOLEAN

HotkeyInv ==
  /\ HotkeyTyped
  /\ OpenedEmptied /\ SettingsHeld
  /\ NoKeyResurrected /\ KeyAcknowledged

\* What is bound was offered last: the functions of JContainers are those of the
\* last root as long as that one is ready, and an earlier one's otherwise.
Binding ==
  /\ session.api # None => offered.api = Required
  /\ session.jcReady => /\ offered.root # None /\ Binds(offered.root)
                       /\ session.functions = offered.root

SessionInv ==
  /\ stage \in {"off", "load", "saving", "register", "listen", "running", "refused"}
  /\ session \in [registered: BOOLEAN, windowOpen: BOOLEAN, api: {Required, None},
                  jcReady: BOOLEAN, functions: Root \cup {None},
                  started: BOOLEAN, catalog: BOOLEAN,
                  thumbnails: BOOLEAN,
                  answer: {None, "called", "slaveTatsUnavailable",
                           "jContainersUnavailable"}]
  /\ offered \in [api: Version \cup {None}, root: Root \cup {None}]
  /\ Binding

IInv == HotkeyInv /\ SessionInv /\ (op # None => stage \in {"saving", "running"})

-----------------------------------------------------------------------------
(* What a file says of the key.                                            *)

\* Whatever the field holds, load makes a key of it, or None, or fails.
LEMMA DecodeType ==
  ASSUME NEW v \in Value
  PROVE  Decode(v) \in Key \cup {None, Missing}
<1>1. CASE v = Missing
  BY <1>1 DEF Decode
<1>2. CASE v # Missing
  <2>0. v \in Value \ {Missing}
    BY <1>2
  <2>1. v.kind \in FieldKind
    BY <2>0, ValueAssumption
  <2>2. CASE v.kind = "null"
    BY <1>2, <2>2 DEF Decode
  <2>3. CASE v.kind = "number"
    <3>1. v.number \in Int
      BY <2>0, <2>3, ValueAssumption
    <3>2. v.number % KeyRange \in Key
      BY <3>1, KeyRangeAssumption DEF Key
    <3> QED
      BY <1>2, <2>3, <3>2 DEF Decode
  <2>4. CASE v.kind = "name"
    <3>1. Option \subseteq Key \cup {None}
      BY OptionAssumption
    <3> QED
      BY <1>2, <2>4, <3>1 DEF Decode
  <2>5. CASE v.kind = "other"
    BY <1>2, <2>5 DEF Decode
  <2> QED
    BY <2>1, <2>2, <2>3, <2>4, <2>5 DEF FieldKind
<1> QED
  BY <1>1, <1>2

\* A key that was saved is the key that is loaded.
LEMMA EncodeDecode ==
  ASSUME NEW k \in Key \cup {None}
  PROVE  KeyOf(Encode(k)) = k
<1>1. Encode(k) # Missing /\ k # Missing
  BY DistinctAssumption, MissingAssumption
<1>2. CASE k = None
  BY <1>1, <1>2 DEF KeyOf, Decode, Encode
<1>3. CASE k # None
  <2>1. k \in Key
    BY <1>3
  <2>2. k >= 0 /\ k % KeyRange = k
    BY <2>1, KeyRangeAssumption DEF Key
  <2>3. Encode(k).kind = "number" /\ Encode(k).number = k
    BY <1>3 DEF Encode
  <2>4. Decode(Encode(k)) = k
    BY <1>1, <2>2, <2>3 DEF Decode
  <2> QED
    BY <1>1, <2>4 DEF KeyOf
<1> QED
  BY <1>2, <1>3

\* So a load always ends with a key or with none.
LEMMA KeyOfStored ==
  ASSUME NEW f \in Stored
  PROVE  KeyOf(f.hotkey) \in Key \cup {None}
<1>1. CASE f.hotkey \in Value
  <2>1. Decode(f.hotkey) \in Key \cup {None, Missing}
    BY <1>1, DecodeType
  <2> QED
    BY <2>1 DEF KeyOf
<1>2. CASE f.hotkey \in {Encode(k) : k \in Key \cup {None}}
  <2>1. PICK k \in Key \cup {None} : f.hotkey = Encode(k)
    BY <1>2
  <2> QED
    BY <2>1, EncodeDecode
<1> QED
  BY <1>1, <1>2 DEF Stored

\* What a save writes is a file of the key in force.
LEMMA WrittenIsStored ==
  ASSUME HotkeyTyped, op # None
  PROVE  /\ Written \in Stored /\ Written \notin {None, Broken}
         /\ KeyOf(Written.hotkey) = key
         /\ Written.others = op.others
<1>1. op.others \in BOOLEAN /\ key \in Key \cup {None}
  BY DEF HotkeyTyped, Operation
<1>2. Written \in Stored
  BY <1>1 DEF Written, Stored
<1>3. Written \notin {None, Broken}
  BY <1>2, DistinctAssumption
<1>4. KeyOf(Encode(key)) = key
  BY <1>1, EncodeDecode
<1> QED
  BY <1>2, <1>3, <1>4 DEF Written

-----------------------------------------------------------------------------
(* The steps of the hotkey.                                                *)

\* Nothing of the hotkey moves.
LEMMA HotkeyStutters ==
  ASSUME HotkeyInv, UNCHANGED hotkeyVars
  PROVE  HotkeyInv' /\ op' = op
BY DEF HotkeyInv, HotkeyTyped, OpenedEmptied, SettingsHeld, NoKeyResurrected,
       KeyAcknowledged, Intact, hotkeyVars, fileVars, keyVars

\* A save keeps the invariant at each of its steps and wherever it fails.
LEMMA SaveKeeps ==
  ASSUME HotkeyInv, Save
  PROVE  HotkeyInv'
<1>0. /\ HotkeyTyped /\ op # None /\ op \in Operation
      /\ key \in Key \cup {None} /\ op.previous \in Key \cup {None}
      /\ op.others \in BOOLEAN
  BY DEF HotkeyInv, HotkeyTyped, Save, OpenFails, Open, OpenUnread, WriteFails, Write,
         Close, CloseLoses, Operation
<1>1. CASE OpenFails
  BY <1>0, <1>1
     DEF OpenFails, SaveFails, Ends, HotkeyInv, HotkeyTyped, OpenedEmptied,
         SettingsHeld, NoKeyResurrected, KeyAcknowledged, Intact
<1>2. CASE Open
  <2>1. /\ op' \in Operation /\ op'.stage = "open"
        /\ Intact /\ file.others => op'.others
    <3>1. (Intact /\ file.others) \in BOOLEAN
      OBVIOUS
    <3> QED
      BY <1>0, <1>2, <3>1 DEF Open, Operation
  <2>2. op' # None /\ file' = Broken /\ UNCHANGED <<key, acknowledged, owed, settings>>
    BY <1>2, <2>1, DistinctAssumption DEF Open
  <2>3. SettingsHeld'
    BY <1>0, <1>2, <2>1, <2>2
       DEF Open, HotkeyInv, SettingsHeld, OpenedEmptied, Intact, Operation
  <2> QED
    BY <1>0, <2>1, <2>2, <2>3
       DEF HotkeyInv, HotkeyTyped, OpenedEmptied, NoKeyResurrected, KeyAcknowledged,
           Intact
<1>3. CASE WriteFails
  BY <1>0, <1>3
     DEF WriteFails, SaveFails, Ends, HotkeyInv, HotkeyTyped, OpenedEmptied,
         SettingsHeld, NoKeyResurrected, KeyAcknowledged, Intact
<1>4. CASE Write
  <2>1. op' \in Operation /\ op'.stage = "written" /\ op'.others = op.others
    BY <1>0, <1>4 DEF Write, Operation
  <2>2. /\ op' # None /\ op.stage = "open"
        /\ UNCHANGED <<file, owed, settings, key, acknowledged>>
    BY <1>4, <2>1, DistinctAssumption DEF Write, fileVars
  <2> QED
    BY <1>0, <2>1, <2>2
       DEF HotkeyInv, HotkeyTyped, OpenedEmptied, SettingsHeld, NoKeyResurrected,
           KeyAcknowledged, Intact
<1>5. CASE Close
  <2>1. /\ file' = Written /\ owed' = {key} /\ op' = None /\ op.stage = "written"
        /\ key' = key /\ acknowledged' = key /\ settings' = settings
    BY <1>5 DEF Close, SaveSucceeds, Ends
  <2>2. Intact' /\ file' \in Stored
    BY <1>0, <2>1, WrittenIsStored DEF Intact
  <2>3. KeyOf(file'.hotkey) = key /\ file'.others = op.others
    BY <1>0, <2>1, WrittenIsStored
  <2>4. settings' => file'.others
    <3>1. file = Broken
      BY <1>0, <2>1 DEF HotkeyInv, OpenedEmptied
    <3> QED
      BY <2>1, <2>3, <3>1 DEF HotkeyInv, SettingsHeld, Intact
  <2>5. NoKeyResurrected'
    BY <2>1, <2>3 DEF NoKeyResurrected
  <2> QED
    BY <1>0, <2>1, <2>2, <2>4, <2>5
       DEF HotkeyInv, HotkeyTyped, OpenedEmptied, SettingsHeld, KeyAcknowledged
<1>6. CASE CloseLoses
  <2>1. /\ file' = file /\ owed' = {key} /\ op' = None /\ file = Broken
        /\ key' = key /\ acknowledged' = key /\ settings' = FALSE
    BY <1>0, <1>6 DEF CloseLoses, SaveSucceeds, Ends, HotkeyInv, OpenedEmptied
  <2> QED
    BY <1>0, <2>1
       DEF HotkeyInv, HotkeyTyped, OpenedEmptied, SettingsHeld, NoKeyResurrected,
           KeyAcknowledged, Intact
<1>7. CASE OpenUnread
  <2>1. op' \in Operation /\ op'.stage = "open"
    BY <1>0, <1>7 DEF OpenUnread, Operation
  <2>2. /\ op' # None /\ file' = Broken /\ settings' = FALSE
        /\ UNCHANGED <<key, acknowledged, owed>>
    BY <1>7, <2>1, DistinctAssumption DEF OpenUnread
  <2> QED
    BY <1>0, <2>1, <2>2
       DEF HotkeyInv, HotkeyTyped, OpenedEmptied, SettingsHeld, NoKeyResurrected,
           KeyAcknowledged, Intact
<1> QED
  BY <1>1, <1>2, <1>3, <1>4, <1>5, <1>6, <1>7 DEF Save

\* The lock is taken with the key that was in force.
LEMMA BeginKeeps ==
  ASSUME HotkeyInv, NEW k \in Key \cup {None},
         op = None, Begin, key' = k, UNCHANGED <<fileVars, acknowledged>>
  PROVE  HotkeyInv' /\ op' # None
<1>1. op' \in Operation /\ op'.stage = "begun"
  BY DEF Begin, HotkeyInv, HotkeyTyped, Operation
<1>2. op' # None
  BY <1>1, DistinctAssumption
<1> QED
  BY <1>1, <1>2
     DEF HotkeyInv, HotkeyTyped, OpenedEmptied, SettingsHeld, NoKeyResurrected,
         KeyAcknowledged, Intact, fileVars

\* A load of a file that is there.
LEMMA LoadFileKeeps ==
  ASSUME HotkeyInv, LoadFile
  PROVE  HotkeyInv' /\ op' = None
<1>1. PICK k : /\ k = IF Intact THEN KeyOf(file.hotkey) ELSE None
               /\ key' = k /\ acknowledged' = k
  BY DEF LoadFile
<1>2. k \in Key \cup {None}
  BY <1>1, KeyOfStored DEF HotkeyInv, HotkeyTyped, Intact
<1> QED
  BY <1>1, <1>2
     DEF LoadFile, HotkeyInv, HotkeyTyped, OpenedEmptied, SettingsHeld,
         NoKeyResurrected, KeyAcknowledged, Intact, fileVars

\* The process ends at any step of a save.
LEMMA EndProcessKeeps ==
  ASSUME HotkeyInv, EndProcess
  PROVE  HotkeyInv' /\ op' = None
<1>1. /\ key' = None /\ op' = None /\ acknowledged' = None
      /\ owed' = IF op = None THEN owed ELSE owed \cup {key}
      /\ settings' = (settings /\ file' # Broken)
  BY DEF EndProcess, ForgetKey
<1>2. CASE file' = file
  BY <1>1, <1>2
     DEF HotkeyInv, HotkeyTyped, OpenedEmptied, SettingsHeld, NoKeyResurrected,
         KeyAcknowledged, Intact
<1>3. CASE op # None /\ op.stage = "written" /\ file' = Written
  <2>1. /\ file' \in Stored /\ Intact' /\ KeyOf(file'.hotkey) = key
        /\ file'.others = op.others
    BY <1>3, WrittenIsStored DEF HotkeyInv, Intact
  <2>2. settings => op.others
    BY <1>3 DEF HotkeyInv, SettingsHeld, OpenedEmptied, Intact
  <2>3. NoKeyResurrected'
    BY <1>1, <1>3, <2>1 DEF NoKeyResurrected
  <2> QED
    BY <1>1, <1>3, <2>1, <2>2, <2>3
       DEF HotkeyInv, HotkeyTyped, OpenedEmptied, SettingsHeld, KeyAcknowledged
<1> QED
  BY <1>1, <1>2, <1>3 DEF EndProcess

\* The user edits the file while nothing runs.
LEMMA EditFileKeeps ==
  ASSUME HotkeyInv, NEW new \in File, op = None, EditFile(new)
  PROVE  HotkeyInv' /\ op' = None
<1>1. new \in {None, Broken} \cup [hotkey: Value, others: BOOLEAN]
  BY FileAssumption
<1>2. new \in {None, Broken} \cup Stored
  BY <1>1 DEF Stored
<1>3. new \notin {None, Broken} => KeyOf(new.hotkey) \in Key \cup {None}
  BY <1>2, KeyOfStored
<1>4. new \notin {None, Broken} => new.others \in BOOLEAN
  BY <1>2 DEF Stored
<1> QED
  BY <1>2, <1>3, <1>4
     DEF EditFile, HotkeyInv, HotkeyTyped, OpenedEmptied, SettingsHeld,
         NoKeyResurrected, KeyAcknowledged, Intact, keyVars

-----------------------------------------------------------------------------
(* The steps of the plugin.                                                *)

\* The session of a process that begins.
LEMMA SessionBegins ==
  ASSUME IInv, session' = NewSession, offered' = NothingOffered,
         stage' \in {"off"}
  PROVE  SessionInv'
BY DEF SessionInv, Binding, NewSession, NothingOffered

\* The start.
LEMMA InitHolds == Init => IInv
<1> SUFFICES ASSUME Init
             PROVE  IInv
  OBVIOUS
<1>1. HotkeyInv
  BY DEF Init, HotkeyInit, HotkeyInv, HotkeyTyped, OpenedEmptied, SettingsHeld,
         NoKeyResurrected, KeyAcknowledged, Intact
<1>2. SessionInv
  BY DEF Init, SessionInv, Binding, NewSession, NothingOffered
<1> QED
  BY <1>1, <1>2 DEF Init, HotkeyInit, IInv

\* Every step keeps the invariant.
LEMMA NextKeeps == IInv /\ [Next]_vars => IInv'
<1> SUFFICES ASSUME IInv, [Next]_vars
             PROVE  IInv'
  OBVIOUS
<1> USE DEF IInv
<1>1. CASE StartProcess
  <2>1. op' = op /\ op = None
    BY <1>1 DEF StartProcess, hotkeyVars, keyVars
  <2> QED
    BY <1>1, <2>1, HotkeyStutters DEF StartProcess, SessionInv, Binding
<1>2. CASE ProcessEnds
  BY <1>2, EndProcessKeeps, SessionBegins DEF ProcessEnds
<1>3. ASSUME NEW new \in File, UserEdits(new)
      PROVE  IInv'
  <2>1. op = None
    BY <1>3 DEF UserEdits
  <2> QED
    BY <1>3, <2>1, EditFileKeeps DEF UserEdits, pluginVars, SessionInv, Binding
<1>4. CASE LoadHotkey
  <2>1. op = None
    BY <1>4 DEF LoadHotkey
  <2>2. SessionInv'
    BY <1>4 DEF LoadHotkey, SessionInv, Binding
  <2>3. CASE LoadFile
    BY <1>4, <2>2, <2>3, LoadFileKeeps DEF LoadHotkey
  <2>4. CASE LoadUnreadable
    BY <2>1, <2>2, <2>4, HotkeyStutters DEF LoadUnreadable
  <2>5. CASE LoadMissing /\ stage' = "saving"
    <3>1. Begin /\ key' = None /\ UNCHANGED <<fileVars, acknowledged>>
      BY <2>5 DEF LoadMissing
    <3> QED
      BY <2>1, <2>2, <2>5, <3>1, BeginKeeps
  <2> QED
    BY <1>4, <2>3, <2>4, <2>5 DEF LoadHotkey
<1>5. CASE SaveFirst
  BY <1>5, SaveKeeps DEF SaveFirst, SessionInv, Binding
<1>6. CASE RegisterMenu
  <2>1. op = None /\ UNCHANGED hotkeyVars
    BY <1>6 DEF RegisterMenu
  <2>2. SessionInv'
    BY <1>6 DEF RegisterMenu, SessionInv, Binding
  <2> QED
    BY <2>1, <2>2, HotkeyStutters
<1>7. CASE Listen
  <2>1. op = None /\ UNCHANGED hotkeyVars
    BY <1>7 DEF Listen
  <2>2. SessionInv'
    BY <1>7 DEF Listen, SessionInv, Binding
  <2> QED
    BY <2>1, <2>2, HotkeyStutters
<1>8. ASSUME NEW v \in Version, SlaveTatsMessage(v)
      PROVE  IInv'
  <2>1. UNCHANGED hotkeyVars /\ stage' = stage
    BY <1>8 DEF SlaveTatsMessage
  <2>2. SessionInv'
    BY <1>8 DEF SlaveTatsMessage, Bound, SessionInv, Binding
  <2> QED
    BY <2>1, <2>2, HotkeyStutters
<1>9. ASSUME NEW root \in Root, JContainersMessage(root)
      PROVE  IInv'
  <2>1. UNCHANGED hotkeyVars /\ stage' = stage
    BY <1>9 DEF JContainersMessage, RootRefused, RootBound, vars, pluginVars
  <2>2. SessionInv'
    <3>1. CASE RootRefused(root)
      BY <3>1 DEF RootRefused, vars, pluginVars, SessionInv, Binding, Binds
    <3>2. CASE RootBound(root)
      <4>1. root # None /\ Binds(root) \in BOOLEAN
        BY RootAssumption DEF Binds
      <4>2. CASE Binds(root)
        BY <3>2, <4>1, <4>2 DEF RootBound, SessionInv, Binding, Binds
      <4>3. CASE ~Binds(root)
        BY <3>2, <4>1, <4>3 DEF RootBound, SessionInv, Binding
      <4> QED
        BY <4>2, <4>3
    <3> QED
      BY <1>9, <3>1, <3>2 DEF JContainersMessage
  <2> QED
    BY <2>1, <2>2, HotkeyStutters
<1>10. ASSUME NEW scanned \in BOOLEAN, NEW drawable \in BOOLEAN,
              DataLoaded(scanned, drawable)
       PROVE  IInv'
  <2>1. UNCHANGED hotkeyVars /\ stage' = stage
    BY <1>10 DEF DataLoaded
  <2>2. SessionInv'
    BY <1>10 DEF DataLoaded, SessionInv, Binding
  <2> QED
    BY <2>1, <2>2, HotkeyStutters
<1>11. ASSUME NEW open \in BOOLEAN, SetOpen(open)
       PROVE  IInv'
  <2>1. UNCHANGED hotkeyVars /\ stage' = stage
    BY <1>11 DEF SetOpen
  <2>2. SessionInv'
    BY <1>11 DEF SetOpen, SessionInv, Binding
  <2> QED
    BY <2>1, <2>2, HotkeyStutters
<1>12. ASSUME NEW k \in Key, PressKey(k)
       PROVE  IInv'
  <2>1. (~session.windowOpen) \in BOOLEAN
    BY DEF SessionInv
  <2> QED
    BY <1>11, <1>12, <2>1 DEF PressKey
<1>13. CASE Launch \/ CloseIt
  BY <1>11, <1>13 DEF Launch, CloseIt
<1>14. ASSUME NEW k \in Option, ChooseKey(k)
       PROVE  IInv'
  <2>1. /\ op = None /\ stage = "running" /\ UNCHANGED pluginVars
        /\ Begin /\ key' = k /\ UNCHANGED <<fileVars, acknowledged>>
    BY <1>14 DEF ChooseKey, SelectKey
  <2>2. k \in Key \cup {None}
    BY OptionAssumption
  <2>3. HotkeyInv' /\ op' # None
    BY <2>1, <2>2, BeginKeeps
  <2> QED
    BY <2>1, <2>3 DEF pluginVars, SessionInv, Binding
<1>15. CASE SaveChoice
  BY <1>15, SaveKeeps DEF SaveChoice, pluginVars, SessionInv, Binding
<1>16. CASE CallService
  <2>1. UNCHANGED hotkeyVars /\ stage' = stage
    BY <1>16 DEF CallService
  <2>2. SessionInv'
    BY <1>16 DEF CallService, Answer, SessionInv, Binding
  <2> QED
    BY <2>1, <2>2, HotkeyStutters
<1>17. CASE UNCHANGED vars
  <2>1. UNCHANGED hotkeyVars /\ UNCHANGED <<stage, session, offered>>
    BY <1>17 DEF vars, pluginVars
  <2> QED
    BY <2>1, HotkeyStutters DEF SessionInv, Binding
<1> QED
  BY <1>1, <1>2, <1>3, <1>4, <1>5, <1>6, <1>7, <1>8, <1>9, <1>10, <1>12, <1>13,
     <1>14, <1>15, <1>16, <1>17 DEF Next

\* The invariant holds throughout.
THEOREM Invariance == Spec => []IInv
BY InitHolds, NextKeeps, PTL DEF Spec

-----------------------------------------------------------------------------
(* What follows from it.                                                   *)

\* The variables of the plugin and of its hotkey keep their types, whatever
\* stands in the file.
THEOREM PluginTyped == Spec => []TypeOK
<1>1. IInv => TypeOK
  BY DEF IInv, HotkeyInv, HotkeyTyped, SessionInv, TypeOK
<1> QED
  BY <1>1, Invariance, PTL

\* No start finds a key that was replaced, or one whose save was reported as
\* failed, wherever a save was cut short (HotkeyBinding, lines 62-160).
THEOREM KeysStayReplaced == Spec => []NoKeyResurrected
<1>1. IInv => NoKeyResurrected
  BY DEF IInv, HotkeyInv
<1> QED
  BY <1>1, Invariance, PTL

\* The other settings of the file survive every save that reads it, writes it
\* and is not cut short (lines 145-160).
THEOREM SettingsKept == Spec => []SettingsSurvive
<1>1. IInv => SettingsSurvive
  BY DEF IInv, HotkeyInv, OpenedEmptied, SettingsHeld, SettingsSurvive, Intact
<1> QED
  BY <1>1, Invariance, PTL

\* A selection that failed leaves the key as it was (select, lines 108-117).
THEOREM SelectionAcknowledged == Spec => []KeyAcknowledged
<1>1. IInv => KeyAcknowledged
  BY DEF IInv, HotkeyInv
<1> QED
  BY <1>1, Invariance, PTL

\* The window moves for the key in force only (onMenuHotkeyInput).
THEOREM PressesTaken == Spec => PressesAcknowledged
<1>1. IInv /\ [Next]_vars
        => [\A k \in Key : PressKey(k) => k = acknowledged]_vars
  BY DEF IInv, HotkeyInv, KeyAcknowledged, PressKey, MatchesKey
<1> QED
  BY <1>1, Invariance, PTL DEF Spec, PressesAcknowledged

\* The service calls through the last interface of SlaveTatsNG and the functions
\* of the last root of JContainers of the version required, and not at all if
\* one of them was unusable (main.cpp, lines 206-239, and the checks of
\* SlaveTatsService).
THEOREM CallsAreBound == Spec => BoundBeforeCalled
<1>1. IInv /\ [Next]_vars
        => [CallService /\ session'.answer = "called"
              => /\ offered.api = Required
                 /\ session.functions = offered.root /\ Binds(offered.root)]_vars
  <2> SUFFICES ASSUME IInv, CallService, session'.answer = "called"
               PROVE  /\ offered.api = Required
                      /\ session.functions = offered.root /\ Binds(offered.root)
    OBVIOUS
  <2>1. session'.answer = Answer
    BY DEF CallService, IInv, SessionInv
  <2>2. session.api # None /\ session.jcReady
    BY <2>1 DEF Answer
  <2> QED
    BY <2>2 DEF IInv, SessionInv, Binding
<1> QED
  BY <1>1, Invariance, PTL DEF Spec, BoundBeforeCalled
=============================================================================
