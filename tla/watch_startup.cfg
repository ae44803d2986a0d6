\* A save between the start of the program and the watcher's baseline.
SPECIFICATION FairSpec
CONSTANTS
  g1 = g1
  g2 = g2
  b1 = b1
  absent = absent
  Good = {g1, g2}
  Bad = {b1}
  Absent = absent
  Default = g1
  MaxChanges = 1
  QuietStart = FALSE
PROPERTIES EditsAreApplied
\* Without users the watcher finds nothing to do.
CHECK_DEADLOCK FALSE
