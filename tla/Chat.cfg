SPECIFICATION Spec
CONSTANTS
  t1 = t1
  t2 = t2
  r1 = r1
  c1 = c1
  ToolIds = {t1, t2}
  ManualRuns = {r1}
  ToolKinds = {"bash", "edit"}
  Command <- OneCommand
  AutoAccept = {TRUE, FALSE}
  MaxPrompts = 2
  MaxFires = 1
  MaxToolTurns = 1
  MaxHunks = 2
SYMMETRY SwapTools
INVARIANTS TypeOK UsesAreAnsweredOnce OnlyGrantedRun WaitingIsPending TurnIsNotLost
PROPERTIES QuitIsMeant
CHECK_DEADLOCK FALSE
