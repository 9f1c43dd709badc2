SPECIFICATION Spec
CONSTANTS
  c1 = c1
  c2 = c2
  c3 = c3
  c4 = c4
  c5 = c5
  None = None
  Clients = {c1, c2, c3, c4, c5}
  Kind <- KindAsks
  Discovery = FALSE
  EventCap = 1
  Background = TRUE
  Redirected = {}
  Offload = FALSE
INVARIANT SlotInv
PROPERTY SlotSpec
CHECK_DEADLOCK FALSE
ACTION_CONSTRAINT PlainAskOrFeedback
