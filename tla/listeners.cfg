\* Two utterances of waiting callers that may time out, and either a tray built at
\* any time over a channel of four events or one status call at any moment.
SPECIFICATION ListenersSpec
CONSTANTS
  j1 = j1
  j2 = j2
  l1 = l1
  NoJob = NoJob
  Jobs = {j1, j2}
  Stops = {}
  Halts = {}
  Looks = {l1}
  WaitTimeout = 1
  Configs <- OneConfig
  Requests <- Plain
  ChannelCapacity = 4
SYMMETRY JobSymmetry
INVARIANTS PulsesExactlyWhileSpeaking AlarmIsNotLost StatusCountsNoActiveJob StatusNotStale
\* With every call returned, every event handled and the worker parked nothing is left.
CHECK_DEADLOCK FALSE
