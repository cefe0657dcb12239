------------------------------- MODULE Plugin --------------------------------
(***************************************************************************)
(* The life of the plugin: SKSEPluginLoad and the message handlers of      *)
(* main.cpp, the window of NativeMenu, the bindings of SlaveTatsRuntime    *)
(* and the hotkey.                                                         *)
(*                                                                         *)
(* Messages come in any order, any number of times or never.  The process  *)
(* may end at any point and start again; only the hotkey's file remains.   *)
(***************************************************************************)
EXTENDS HotkeyBinding, FiniteSets

CONSTANTS
  Version,   \* versions of the interface SlaveTatsNG may announce
  Required,  \* the one the plugin is built for
  Root,      \* root interfaces JContainers may announce: whether they are of
             \* the version the plugin is built for, and what they offer
  File       \* what the user may put in place of the file

ASSUME VersionAssumption == Required \in Version
ASSUME RootAssumption ==
  /\ \A root \in Root : root.current \in BOOLEAN
  /\ None \notin Root
ASSUME FileAssumption ==
  File \subseteq {None, Broken} \cup [hotkey: Value, others: BOOLEAN]

VARIABLES
  stage,    \* how far SKSEPluginLoad is, or "running", or "off"
  session,  \* what the process knows
  offered   \* the last interface of SlaveTatsNG and the last root of
            \* JContainers of the version required (a history value)

pluginVars == <<stage, session, offered>>
vars == <<hotkeyVars, pluginVars>>

NewSession ==
  [registered |-> FALSE,     \* the menu and the input callback
   windowOpen |-> FALSE,     \* of the window of the framework
   api |-> None,             \* m_api, by its version
   jcReady |-> FALSE,        \* m_jContainersReady
   functions |-> None,       \* of JContainers, by the root they came from
   started |-> FALSE,        \* the slot workflow
   catalog |-> FALSE,        \* the store holds one
   thumbnails |-> FALSE,     \* their runtime is a real one
   answer |-> None]          \* of the last call of the service

\* Of JContainers the plugin needs two interfaces.
Interface == {"reflection", "domain"}

NothingOffered == [api |-> None, root |-> None]

Init ==
  /\ HotkeyInit
  /\ stage = "off" /\ session = NewSession /\ offered = NothingOffered

-----------------------------------------------------------------------------
(* The process and the load of the plugin.                                 *)

StartProcess ==
  /\ stage = "off" /\ stage' = "load"
  /\ UNCHANGED <<hotkeyVars, session, offered>>

ProcessEnds ==
  /\ stage # "off" /\ stage' = "off"
  /\ EndProcess
  /\ session' = NewSession /\ offered' = NothingOffered

UserEdits(new) ==
  /\ stage = "off"
  /\ EditFile(new)
  /\ UNCHANGED pluginVars

\* The result of the load is only logged.
LoadHotkey ==
  /\ stage = "load"
  /\ \/ (LoadFile \/ LoadUnreadable) /\ stage' = "register"
     \/ LoadMissing /\ stage' = "saving"
  /\ UNCHANGED <<session, offered>>

\* The first file is written before anything else happens.
SaveFirst ==
  /\ stage = "saving" /\ Save
  /\ stage' = IF op' = None THEN "register" ELSE stage
  /\ UNCHANGED <<session, offered>>

\* registerMenu: the framework is missing, too old or too new, or makes no
\* window; the input callback is added only if the menu is there.
RegisterMenu ==
  /\ stage = "register" /\ stage' = "listen"
  /\ \E done \in BOOLEAN : session' = [session EXCEPT !.registered = done]
  /\ UNCHANGED <<hotkeyVars, offered>>

\* Without a messaging interface the plugin refuses to load.
Listen ==
  /\ stage = "listen" /\ stage' \in {"running", "refused"}
  /\ UNCHANGED <<hotkeyVars, session, offered>>

-----------------------------------------------------------------------------
(* Messages.                                                               *)

\* An interface of another version takes back the one bound before.
Bound(version) == IF version = Required THEN version ELSE None

\* onSlaveTatsMessage, of the type that carries the interface.
SlaveTatsMessage(version) ==
  /\ stage = "running"
  /\ session' = [session EXCEPT !.api = Bound(version)]
  /\ offered' = [offered EXCEPT !.api = version]
  /\ UNCHANGED <<hotkeyVars, stage>>

\* jcmini::Init: what the root interface must offer.
Binds(root) == Interface \subseteq root.interfaces

\* onJContainersMessage.  A root of another version is refused before the
\* binding in use is touched, which goes on.
RootRefused(root) ==
  /\ stage = "running" /\ ~root.current
  /\ UNCHANGED vars

\* Mutant: what was bound stays ready if a later root cannot be bound.
RootStaysReady(root) ==
  /\ stage = "running" /\ root.current
  /\ session' = IF Binds(root)
                THEN [session EXCEPT !.jcReady = TRUE, !.functions = root]
                ELSE session
  /\ offered' = [offered EXCEPT !.root = root]
  /\ UNCHANGED <<hotkeyVars, stage>>

\* bindJContainers.  A root that cannot be bound takes the service back but
\* leaves the functions bound before.
RootBound(root) ==
  /\ stage = "running" /\ root.current
  /\ session' = [session EXCEPT !.jcReady = Binds(root),
                               !.functions = IF Binds(root) THEN root ELSE @]
  /\ offered' = [offered EXCEPT !.root = root]
  /\ UNCHANGED <<hotkeyVars, stage>>

JContainersMessage(root) == RootRefused(root) \/ RootBound(root)

\* kDataLoaded: a catalog that cannot be loaded leaves the last one, and
\* neither it nor the thumbnails keep the workflow from starting.
DataLoaded(scanned, drawable) ==
  /\ stage = "running"
  /\ session' = [session EXCEPT !.started = TRUE, !.catalog = @ \/ scanned,
                               !.thumbnails = drawable]
  /\ UNCHANGED <<hotkeyVars, stage, offered>>

-----------------------------------------------------------------------------
(* The window and the service.                                             *)

SetOpen(open) ==
  /\ session.registered /\ session' = [session EXCEPT !.windowOpen = open]
  /\ UNCHANGED <<hotkeyVars, stage, offered>>

\* onMenuHotkeyInput
PressKey(k) == MatchesKey(k) /\ SetOpen(~session.windowOpen)

\* The button of the launcher, which waits for a save.
Launch == op = None /\ SetOpen(TRUE)

\* The window's button, or the framework.
CloseIt == session.windowOpen /\ SetOpen(FALSE)

\* The combo of the launcher.
ChooseKey(k) ==
  /\ stage = "running" /\ session.registered
  /\ SelectKey(k)
  /\ UNCHANGED pluginVars

SaveChoice == stage = "running" /\ Save /\ UNCHANGED pluginVars

\* The checks at the start of every operation of the service.
Answer ==
  IF session.api = None THEN "slaveTatsUnavailable"
  ELSE IF ~session.jcReady THEN "jContainersUnavailable" ELSE "called"

\* A task of the workflow calls the service.
CallService ==
  /\ stage = "running" /\ session.started
  /\ session' = [session EXCEPT !.answer = Answer]
  /\ UNCHANGED <<hotkeyVars, stage, offered>>

Next ==
  \/ StartProcess \/ ProcessEnds
  \/ \E new \in File : UserEdits(new)
  \/ LoadHotkey \/ SaveFirst \/ RegisterMenu \/ Listen
  \/ \E v \in Version : SlaveTatsMessage(v)
  \/ \E root \in Root : JContainersMessage(root)
  \/ \E scanned, drawable \in BOOLEAN : DataLoaded(scanned, drawable)
  \/ \E k \in Key : PressKey(k)
  \/ Launch \/ CloseIt
  \/ \E k \in Option : ChooseKey(k)
  \/ SaveChoice \/ CallService

Spec == Init /\ [][Next]_vars

-----------------------------------------------------------------------------
(* Properties.                                                             *)

\* Every variable keeps its type, and a lock is held only by a load or a
\* selection.
TypeOK ==
  /\ file \in {None, Broken} \cup Stored /\ key \in Key \cup {None}
  /\ acknowledged \in Key \cup {None} /\ owed \subseteq Key \cup {None}
  /\ op \in Operation \cup {None}
  /\ stage \in {"off", "load", "saving", "register", "listen", "running", "refused"}
  /\ op # None => stage \in {"saving", "running"}
  /\ settings \in BOOLEAN
  /\ offered \in [api: Version \cup {None}, root: Root \cup {None}]
  /\ session \in [registered: BOOLEAN, windowOpen: BOOLEAN, api: {Required, None},
                  jcReady: BOOLEAN, functions: Root \cup {None},
                  started: BOOLEAN, catalog: BOOLEAN,
                  thumbnails: BOOLEAN,
                  answer: {None, "called", "slaveTatsUnavailable",
                           "jContainersUnavailable"}]

\* A start loads the key last reported as saved, or one whose save the end
\* of the process cut short, or none: neither a key that was replaced nor
\* one whose save was reported as failed comes back.
NoKeyResurrected == Intact => KeyOf(file.hotkey) \in owed

\* A save that reads the file, writes it and is not cut short keeps its other
\* settings, whatever its hotkey holds and however many saves failed to open
\* it (save, lines 145-154).  A save that cannot read the file loses them and
\* reports success.
SettingsSurvive == Intact /\ settings => file.others

\* A selection that could not be saved leaves the key as it was (select,
\* lines 108-117).
KeyAcknowledged == op = None => key = acknowledged

\* The window opens and closes for the key in force only, never for one
\* that is being saved and may be taken back: the input callback and the
\* launcher run on different threads.
PressesAcknowledged ==
  [][\A k \in Key : PressKey(k) => k = acknowledged]_vars

\* The service goes to SlaveTatsNG only if its last interface was of the version
\* required, and to JContainers only through the functions of its last root of
\* the version required, if that one could be bound.  A root of another version
\* changes nothing: then the one before it goes on being used.
BoundBeforeCalled ==
  [][CallService /\ session'.answer = "called" =>
       /\ offered.api = Required
       /\ session.functions = offered.root /\ Binds(offered.root)]_vars
=============================================================================
