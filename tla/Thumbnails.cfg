SPECIFICATION Spec
CONSTANTS
  Lower <- MCLower
  PageSize = 3
  FallbackEpoch = FallbackEpoch
  Epoch = {"catalog", "slots", FallbackEpoch}
  Drawing <- SharedPath
  Caller = {c1, c2}
  None = None
  MaxVisible = 3
  Capacity = 2
  MaxRevision = 3
  MaxResets = 1
  MaxDeviceChanges = 1
INVARIANTS
  TypeOK
  QueueSound
  NoViewStranded
  OneLoad
  PendingIsLookedUp
  AskedIsShown
PROPERTIES
  SettledStays
