\* Two speak calls race one shutdown; every task and provider keeps running.
SPECIFICATION FairSpec
CONSTANTS
  j1 = j1
  j2 = j2
  s1 = s1
  h1 = h1
  NoJob = NoJob
  Jobs = {j1, j2}
  Stops = {}
  Halts = {h1}
  Configs <- TwoSlots
  Requests <- Plain
PROPERTIES ImplementsLiveQueue AcceptedJobsAreAnswered ShutdownEndsWorker
\* With every call returned and the worker parked or stopped nothing is left.
CHECK_DEADLOCK FALSE
