CONSTANTS
  Tasks = {t1, t2, t3}
  Msgs = {m1, m2, m3, m4}
  Capacities = {0, 1, 3}
  NoCapacity = NoCapacity
SYMMETRY Symmetry
SPECIFICATION Spec
INVARIANTS OneOwner ReservedIsExact GaugeBalance
PROPERTY Overcommit
