---------------------------- MODULE HotkeyBinding ----------------------------
(***************************************************************************)
(* The hotkey and its file (runtime/HotkeyBinding).                        *)
(*                                                                         *)
(* A save reads the file, opens it, which empties it, writes and closes    *)
(* it; the process may end at any of these points.  The file outlives the  *)
(* process, the key does not.  The lock is held from the first step of a   *)
(* load or a selection to the last: while op is not None nobody else reads *)
(* the key.                                                                *)
(***************************************************************************)
EXTENDS Integers

CONSTANTS
  KeyRange,  \* key codes are 0 .. KeyRange - 1 (uint32_t)
  Option,    \* the keys of the combo, None among them
  Value,     \* what the hotkey field of a file may hold, with a kind
  Named,     \* [Option -> the labels, in any case, that name it]
  None,
  Broken,    \* a file that is no JSON object, or was emptied
  Missing    \* no hotkey field

Key == 0 .. KeyRange - 1

ASSUME KeyRangeAssumption == KeyRange \in Nat \ {0}
ASSUME OptionAssumption == None \in Option /\ Option \subseteq Key \cup {None}
ASSUME NoneAssumption == None \notin Key
ASSUME MissingAssumption == Missing \notin Key \cup {None}

FieldKind == {"null", "number", "name", "other"}

ASSUME ValueAssumption ==
  \A v \in Value \ {Missing} : /\ v.kind \in FieldKind
                               /\ v.kind = "number" => v.number \in Int

\* What load makes of the field; Missing stands for a load that fails.  A
\* number that is too large is cut to the width of a key code.
Decode(value) ==
  IF value = Missing THEN Missing
  ELSE CASE value.kind = "null"   -> None
         [] value.kind = "number" -> IF value.number >= 0
                                     THEN value.number % KeyRange ELSE Missing
         [] value.kind = "name"   -> IF \E k \in Option \ {None} :
                                          value.name \in Named[k]
                                     THEN CHOOSE k \in Option \ {None} :
                                            value.name \in Named[k]
                                     ELSE Missing
         [] OTHER                 -> Missing

Encode(k) == IF k = None THEN [kind |-> "null"] ELSE [kind |-> "number", number |-> k]

Stored == [hotkey: Value \cup {Encode(k) : k \in Key \cup {None}}, others: BOOLEAN]

Operation == [previous: Key \cup {None}, others: BOOLEAN,
              stage: {"begun", "open", "written"}]

ASSUME DistinctAssumption ==
  /\ {None, Broken} \cap Stored = {} /\ None \notin Operation
  /\ Missing \notin {Encode(k) : k \in Key \cup {None}}

VARIABLES
  file,          \* None if there is none, Broken, or its hotkey and whether
                 \* it holds other settings
  key,           \* key_
  op,            \* the load or selection that holds the lock, or None
  acknowledged,  \* the key last loaded, or last reported as saved, since the
                 \* start (a history value)
  owed,          \* the keys a start may load (a history value)
  settings       \* the file has other settings to keep: the user put them
                 \* there, and no save that could not read the file, could
                 \* not write it, or was cut short has lost them since (a
                 \* history value)

fileVars == <<file, owed, settings>>
keyVars == <<key, op, acknowledged>>
hotkeyVars == <<fileVars, keyVars>>

Intact == file \notin {None, Broken}
KeyOf(value) == IF Decode(value) = Missing THEN None ELSE Decode(value)

HotkeyInit ==
  /\ file = None /\ owed = {None} /\ settings = FALSE
  /\ key = None /\ op = None /\ acknowledged = None

-----------------------------------------------------------------------------
(* save, on behalf of a load or a selection.                               *)

Ends(k) == key' = k /\ acknowledged' = k /\ op' = None

SaveFails ==
  /\ Ends(op.previous)
  /\ UNCHANGED owed

SaveSucceeds == Ends(key) /\ owed' = {key}

OpenFails ==
  /\ op # None /\ op.stage = "begun"
  /\ SaveFails
  /\ UNCHANGED <<file, settings>>

\* Mutant: only what load accepts is kept.
OpenAccepted ==
  /\ op # None /\ op.stage = "begun"
  /\ op' = [op EXCEPT !.stage = "open",
                      !.others = Intact /\ Decode(file.hotkey) # Missing /\ file.others]
  /\ file' = Broken
  /\ UNCHANGED <<key, acknowledged, owed, settings>>

\* The settings are read, and the file is emptied.
Open ==
  /\ op # None /\ op.stage = "begun"
  /\ op' = [op EXCEPT !.stage = "open", !.others = Intact /\ file.others]
  /\ file' = Broken
  /\ UNCHANGED <<key, acknowledged, owed, settings>>

\* A file that is there and cannot be read is emptied all the same, and the
\* save goes on with the hotkey alone.
OpenUnread ==
  /\ op # None /\ op.stage = "begun" /\ file # None
  /\ op' = [op EXCEPT !.stage = "open", !.others = FALSE]
  /\ file' = Broken /\ settings' = FALSE
  /\ UNCHANGED <<key, acknowledged, owed>>

WriteFails ==
  /\ op # None /\ op.stage = "open"
  /\ SaveFails
  /\ settings' = FALSE
  /\ UNCHANGED file

\* The text is in the stream's buffer.
Write ==
  /\ op # None /\ op.stage = "open"
  /\ op' = [op EXCEPT !.stage = "written"]
  /\ UNCHANGED <<fileVars, key, acknowledged>>

\* Mutant: the key that was in force is written.
WrittenPrevious == [hotkey |-> Encode(op.previous), others |-> op.others]

Written == [hotkey |-> Encode(key), others |-> op.others]

Close ==
  /\ op # None /\ op.stage = "written"
  /\ SaveSucceeds
  /\ file' = Written
  /\ UNCHANGED settings

\* The buffer cannot be written; nobody looks at the stream any more.
CloseLoses ==
  /\ op # None /\ op.stage = "written"
  /\ SaveSucceeds
  /\ settings' = FALSE
  /\ UNCHANGED file

Save == OpenFails \/ Open \/ OpenUnread \/ WriteFails \/ Write \/ Close \/ CloseLoses

-----------------------------------------------------------------------------
(* load and select.                                                        *)

Begin == op' = [previous |-> key, others |-> FALSE, stage |-> "begun"]

\* load of a file that is there; one it cannot use is left alone.
LoadFile ==
  /\ op = None /\ file # None
  /\ LET k == IF Intact THEN KeyOf(file.hotkey) ELSE None
     IN  key' = k /\ acknowledged' = k
  /\ UNCHANGED <<fileVars, op>>

LoadUnreadable ==
  /\ op = None /\ file # None
  /\ UNCHANGED hotkeyVars

\* A file that is missing is written.
LoadMissing ==
  /\ op = None /\ file = None
  /\ Begin /\ key' = None
  /\ UNCHANGED <<fileVars, acknowledged>>

SelectKey(k) ==
  /\ op = None
  /\ Begin /\ key' = k
  /\ UNCHANGED <<fileVars, acknowledged>>

\* Mutant: the lock is not taken.
MatchesUnlocked(k) == key = k

\* matches waits for the lock.
MatchesKey(k) == op = None /\ key = k

-----------------------------------------------------------------------------
(* The process ends; the file is edited while it does not run.             *)

ForgetKey == key' = None /\ op' = None /\ acknowledged' = None

\* Of a text in the buffer all or not all is in the file.
EndProcess ==
  /\ ForgetKey
  /\ \/ file' = file
     \/ op # None /\ op.stage = "written" /\ file' = Written
  /\ owed' = IF op = None THEN owed ELSE owed \cup {key}
  /\ settings' = (settings /\ file' # Broken)

EditFile(new) ==
  /\ file' = new
  /\ owed' = IF new \in {None, Broken} THEN {None} ELSE {KeyOf(new.hotkey)}
  /\ settings' = (new \notin {None, Broken} /\ new.others)
  /\ UNCHANGED keyVars
=============================================================================
