SPECIFICATION Spec
CONSTANTS
  body = body
  feet = feet
  t1 = t1
  t2 = t2
  None = None
  Area = {body, feet}
  SlotCount <- MCSlotCount
  Tattoo = {t1, t2}
  TattooArea <- MCTattooArea
  h1 = h1
  h2 = h2
  h3 = h3
  Handle = {h1, h2, h3}
  MaxColor = 1
  RawColor = {0, 1, 2}
  Listed <- MCDistinct
  DefaultColor <- MCDefaultColor
  FailingCall <- MCFailingCall
  MaxChanges = 1
PROPERTIES
  MaterialSurvivesEdit
SYMMETRY MCSymmetry
