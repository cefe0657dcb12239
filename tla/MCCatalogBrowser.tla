-------------------------- MODULE MCCatalogBrowser ---------------------------
(***************************************************************************)
(* An instance of CatalogBrowser for TLC: two sources, two areas, sections *)
(* that are spelled in two ways or are empty, entries that are malformed   *)
(* and a file that cannot be read.                                         *)
(***************************************************************************)
EXTENDS CatalogBrowser, TLC

MCText == {"", "BODY", "Body", "body", "FEET", "feet", "Main", "main", "side", "x", "y"}
MCFold == [t \in MCText |-> CASE t \in {"BODY", "Body"} -> "body"
                              [] t = "FEET" -> "feet"
                              [] t = "Main" -> "main"
                              [] OTHER -> t]
MCRank == [t \in MCText |-> CASE t = "" -> 0 [] t = "BODY" -> 1 [] t = "Body" -> 2
                              [] t = "FEET" -> 3 [] t = "Main" -> 4
                              [] t = "body" -> 5 [] t = "feet" -> 6
                              [] t = "main" -> 7 [] t = "side" -> 8
                              [] t = "x" -> 9 [] t = "y" -> 10]
\* Every text contains itself and the empty text; "x" is also in "side".
MCHits == [t \in MCText |-> CASE t = "" -> MCText [] t = "x" -> {"x", "side"}
                              [] OTHER -> {t}]
MCSourceRank == ("s1" :> 1) @@ ("s2" :> 2)
MCPack == ("s1" :> "y") @@ ("s2" :> "x")

Entry(name, section, area) == [name |-> name, section |-> section, area |-> area]

Full ==
  ("s1" :> <<Entry("x", "Main", "Body"), Malformed, Entry("y", "main", "body"),
             Entry("y", "side", "body"), Entry("x", "Main", "BODY")>>) @@
  ("s2" :> <<Entry("x", "main", "FEET"), Entry("y", "", "body"),
             Entry("x", "main", "Body"), Entry("y", "side", "feet")>>)
Broken == ("s1" :> Unreadable) @@
          ("s2" :> <<Malformed, Entry("y", "side", "feet"), Entry("x", "main", "feet"),
                     Entry("y", "main", "feet")>>)
MCDisk == {Full, Broken}
MCNumber == {-1, 2, 9}
=============================================================================
