\* One speak call races reload_config between two configurations, each of which
\* finds a backend for it.
SPECIFICATION Spec
CONSTANTS
  j1 = j1
  j2 = j2
  s1 = s1
  h1 = h1
  NoJob = NoJob
  Jobs = {j1}
  Stops = {}
  Halts = {}
  Configs <- WithKeyless
  Requests <- Plain
PROPERTIES SwapIsAtomic
\* With every call returned and the worker parked or stopped nothing is left.
CHECK_DEADLOCK FALSE
