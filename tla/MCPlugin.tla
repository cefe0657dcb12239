------------------------------ MODULE MCPlugin -------------------------------
(***************************************************************************)
(* An instance of Plugin for TLC: two keys, and files with null, numbers   *)
(* in range, too large and negative, a name, an unknown one and none; two  *)
(* libraries of JContainers, one that lacks an interface, and one of       *)
(* another version.                                                        *)
(***************************************************************************)
EXTENDS Plugin

MCOption == {None, 1, 2}
MCNamed == [k \in MCOption |-> IF k = 1 THEN {"F8"} ELSE IF k = 2 THEN {"F9"} ELSE {}]
Number(n) == [kind |-> "number", number |-> n]
Name(n) == [kind |-> "name", name |-> n]
MCValue == {Missing, [kind |-> "null"], Number(2), Number(5), Number(-1),
            Name("F8"), Name("F99"), [kind |-> "other"]}
MCRoot ==
  {[library |-> 1, current |-> TRUE, interfaces |-> Interface],
   [library |-> 2, current |-> TRUE, interfaces |-> Interface],
   [library |-> 2, current |-> TRUE, interfaces |-> {"reflection"}],
   [library |-> 2, current |-> FALSE, interfaces |-> Interface]}
MCFile == {None, Broken} \cup [hotkey: MCValue, others: BOOLEAN]
=============================================================================
