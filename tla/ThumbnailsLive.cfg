SPECIFICATION LiveSpec
CONSTANTS
  Lower <- MCLower
  PageSize = 2
  FallbackEpoch = FallbackEpoch
  Epoch = {"catalog", "slots", FallbackEpoch}
  Drawing <- ManyPaths
  Caller = {c1}
  None = None
  MaxVisible = 2
  Capacity = 3
  MaxRevision = 3
  MaxResets = 0
  MaxDeviceChanges = 0
PROPERTIES
  ThumbnailsSettle
