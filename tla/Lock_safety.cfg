SPECIFICATION Spec
CONSTANTS
  Sagas = {s1, s2}
  Keys = {k1, k2}
  Free = Free
  MaxFaults = 1
  MaxExpiries = 1
SYMMETRY Symmetry
CHECK_DEADLOCK FALSE
INVARIANTS MutualExclusion EndedHoldsNothing
PROPERTY OnlyTheHolderReleases
