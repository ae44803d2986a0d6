\* Ctrl-C before the server task has subscribed.
SPECIFICATION FairSpec
CONSTANTS
  c1 = c1
  c2 = c2
  Clients = {c1, c2}
  PatientUser = FALSE
PROPERTIES InterruptEndsProgram
\* A program that has exited does nothing more.
CHECK_DEADLOCK FALSE
