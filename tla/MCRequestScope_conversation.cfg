CONSTANTS
  home = home
  cabin = cabin
  Sites = {home, cabin}
  Keyworded = {cabin}
  K = 3
  Triggers <- MCTriggers
  Channels <- MCChannels
  MaxMessages = 3
  MaxIterations = 3
  MaxCalls = 2
SPECIFICATION Spec
CHECK_DEADLOCK FALSE
INVARIANTS
  TypeOK
  ScopeIsMeant
  CallsStayInScope
  PromptIsComplete
