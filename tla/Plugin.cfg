SPECIFICATION Spec
CONSTANTS
  KeyRange = 4
  Option <- MCOption
  Value <- MCValue
  Named <- MCNamed
  None = None
  Broken = Broken
  Missing = Missing
  Version = {1, 2}
  Required = 2
  Root <- MCRoot
  File <- MCFile
INVARIANTS
  NoKeyResurrected
  SettingsSurvive
PROPERTIES
  PressesAcknowledged
  BoundBeforeCalled
