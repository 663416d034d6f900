CONSTANTS
  t1 = t1
  t2 = t2
  Tasks = {t1, t2}
  MaxVersion = 3
SYMMETRY TaskSymmetry
SPECIFICATION Spec
INVARIANTS NoCoveredChangeLost AckedSurvives RemovedStaysRemoved
CHECK_DEADLOCK FALSE
