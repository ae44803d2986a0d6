\* Two speak calls race one stop and one shutdown, queue limit 2.
SPECIFICATION Spec
CONSTANTS
  j1 = j1
  j2 = j2
  s1 = s1
  h1 = h1
  NoJob = NoJob
  Jobs = {j1, j2}
  Stops = {s1}
  Halts = {h1}
  Configs <- TwoSlots
  Requests <- Plain
SYMMETRY JobSymmetry
INVARIANTS NoJobLost NoJobTwice CurrentIsVisible ReplyAfterIdle OutcomeMatchesEvents UtterancesNeverOverlap NoLostWakeup LifecycleOrder
PROPERTIES StopReachesEveryJob ImplementsQueue
\* With every call returned and the worker parked or stopped nothing is left.
CHECK_DEADLOCK FALSE
