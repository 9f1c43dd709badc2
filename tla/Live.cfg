SPECIFICATION FairSpec
CONSTANTS
  c1 = c1
  c2 = c2
  c3 = c3
  c4 = c4
  c5 = c5
  None = None
  Clients = {c1, c2, c3}
  Kind <- KindRecordAsk
  Discovery = FALSE
  EventCap = 1
  Background = FALSE
  Redirected = {}
  Offload = FALSE
PROPERTIES SlotFairSpec AnswerEndsTheAsk CancelEndsTheRun
