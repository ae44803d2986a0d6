\* One utterance and one stop; the indicator pulses over an idle engine.
SPECIFICATION TraySpec
CONSTANTS
  j1 = j1
  s1 = s1
  NoJob = NoJob
  Jobs = {j1}
  Stops = {s1}
  Halts = {}
  Configs <- OneConfig
  Requests <- Plain
  ChannelCapacity = 8
INVARIANTS QuietEngineIsGray
\* With every call returned, every event handled and the worker parked nothing is left.
CHECK_DEADLOCK FALSE
