\* Two listeners with one slot each, over TLS; a client that trickles and whose
\* source or group lookup hangs, beside one that behaves; up to two users each.
SPECIFICATION FairSpec
CONSTANTS
  v4 = v4
  v6 = v6
  c1 = c1
  c2 = c2
  None = None
  Listeners = {v4, v6}
  First = v4
  Conns = {c1, c2}
  MaxConnections = 1
  MaxUsernames = 2
  Tls = TRUE
  Trickling = {c1}
  Hung = {c1}
  HungGroups = {c1}
CHECK_DEADLOCK FALSE
INVARIANTS SlotsAccounted FailClosed NothingLeftOpen
PROPERTIES TakenUp Served Stops
