\* A job that waits, a second call at any moment, either kind of backend, a stop,
\* sounds that need not end and servers that need not answer.
SPECIFICATION SpecFromFirst
CONSTANTS
  j1 = j1
  j2 = j2
  s1 = s1
  NoJob = NoJob
  Jobs = {j1, j2}
  Stops = {s1}
  Halts = {}
  Configs <- TwoBackends
  Requests <- Voices
INVARIANTS OnlyTheRunSounds CompletedWasHeard
PROPERTIES ImplementsEngine StopSilences
\* With every call returned and the worker parked nothing is left.
CHECK_DEADLOCK FALSE
