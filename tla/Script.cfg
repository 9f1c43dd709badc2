SPECIFICATION Spec
CONSTANTS
  c1 = c1
  c2 = c2
  c3 = c3
  c4 = c4
  c5 = c5
  None = None
  Clients = {c1, c2, c3, c4}
  Kind <- KindScript
  Discovery = FALSE
  EventCap = 1
  Background = FALSE
  Redirected = {}
  Offload = TRUE
INVARIANTS TypeOK SuccessIsEarned CancelIsTheUsers ValidReplyIsTheAnswer
CHECK_DEADLOCK FALSE
