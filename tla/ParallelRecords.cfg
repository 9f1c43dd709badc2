SPECIFICATION Spec
CONSTANTS
  c1 = c1
  c2 = c2
  c3 = c3
  c4 = c4
  c5 = c5
  None = None
  Clients = {c1, c2, c3}
  Kind <- KindRecords
  Discovery = FALSE
  EventCap = 1
  Background = TRUE
  Redirected = {}
  Offload = FALSE
INVARIANT HistoryIsPaired
