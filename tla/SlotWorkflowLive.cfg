SPECIFICATION FairSpec
CONSTANTS
  body = body
  feet = feet
  t1 = t1
  t2 = t2
  None = None
  Area = {body, feet}
  FirstArea = body
  SlotCount <- MCSlotCount
  PageSize = 1
  Tattoo = {t1, t2}
  TattooArea <- MCTattooArea
  Handle = {1}
  MaxColor = 1
  RawColor = {2}
  MaxGeneration = 4
PROPERTIES
  BusyScreenEnds
