CONSTANTS
  t1 = t1
  t2 = t2
  Tasks = {t1}
  MaxVersion = 4
SPECIFICATION Spec
INVARIANT FlagsCoverChanges
CHECK_DEADLOCK FALSE
