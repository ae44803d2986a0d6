\* Two clients, Ctrl-C once the server has subscribed, every order of the ends, and
\* two URLs of every kind at any moment of a menu bar program.
SPECIFICATION DeliverySpec
CONSTANTS
  c1 = c1
  c2 = c2
  hello = hello
  bye = bye
  fast = fast
  Clients = {c1, c2}
  PatientUser = TRUE
  Words = {hello, bye, fast}
  Rates = {fast}
  Urls <- Samples
  MaxUrls = 2
INVARIANTS InterruptIsGraceful UrlsArriveInOrder
PROPERTIES QuitEndsProgram ServerFailureEndsProgram InterruptEndsProgram WorkerLossIsReported UrlsAreSpoken
\* A program that has exited does nothing more.
CHECK_DEADLOCK FALSE
