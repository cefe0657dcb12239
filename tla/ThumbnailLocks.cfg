SPECIFICATION Spec
CONSTANTS
  Thread = {t1, t2, t3}
  MaxVisible = 2
  None = None
SYMMETRY Symmetry
INVARIANTS
  NoLockCycle
