\* Three sessions for two places, one of them initialized twice, three events on a
\* channel of one.
SPECIFICATION OrderedSpec
CONSTANTS
  c1 = c1
  c2 = c2
  c3 = c3
  Clients = {c1, c2, c3}
  Cap = 2
  Capacity = 1
  MaxEvents = 3
  MaxInits = 3
  MaxErrors = 1
INVARIANTS TypeOK RegisteredHearsAll HeardInOrder
PROPERTIES OpenPeersStay ClosedPeersAreForgotten EventsAreForwarded
\* With every event forwarded and every session closed nothing is left.
CHECK_DEADLOCK FALSE
