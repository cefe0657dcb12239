SPECIFICATION Spec
CONSTANTS
  Text <- MCText
  Fold <- MCFold
  Rank <- MCRank
  Hits <- MCHits
  Source = {"s1", "s2"}
  SourceRank <- MCSourceRank
  Pack <- MCPack
  PageSize = 2
  Unreadable = Unreadable
  Malformed = Malformed
  None = None
  Area = {"BODY", "FEET"}
  Disk <- MCDisk
  Search = {"", "x"}
  Number <- MCNumber
  MaxLoads = 2
INVARIANTS
  PageFresh
  NoDeadEnd
  MatchesOnOnePage
  CardsCompatible
PROPERTIES
  BrowsingKept
  FiltersKept
  JumpsWhereTyped
  CursorSpec
