SPECIFICATION SystemSpec
CONSTANTS
  body = body
  feet = feet
  t1 = t1
  t2 = t2
  h1 = h1
  h2 = h2
  h3 = h3
  None = None
  Area = {body, feet}
  FirstArea = body
  SlotCount <- MCSlotCount
  PageSize = 1
  Tattoo = {t1, t2}
  TattooArea <- MCTattooArea
  Handle = {h1, h2, h3}
  MaxColor = 1
  RawColor = {0, 1}
  MaxGeneration = 4
  Listed <- MCListed
  DefaultColor <- MCDefaultColor
  FailingCall = {"exception", "externalSlots", "add", "remove", "writeMaterial", "markUpdated", "synchronize"}
  MaxChanges = 1
INVARIANTS
  AppliedAsPreviewed
  RetryOnlyNeedsSynchronizing
PROPERTIES
  WorkflowImplemented
SYMMETRY MCSymmetry
