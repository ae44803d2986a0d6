\* Two speak calls of every kind race reload_config between a keyed configuration
\* of limit 1 and a keyless one of limit 2.
SPECIFICATION Spec
CONSTANTS
  j1 = j1
  j2 = j2
  s1 = s1
  h1 = h1
  NoJob = NoJob
  Jobs = {j1, j2}
  Stops = {}
  Halts = {}
  Configs <- WithKeyless
  Requests <- Mixed
SYMMETRY JobSymmetry
INVARIANTS QueueWithinLimit
PROPERTIES NextJobSeesReload
\* With every call returned and the worker parked or stopped nothing is left.
CHECK_DEADLOCK FALSE
