SPECIFICATION Spec
CONSTANTS
  Hosts = {h1, h2}
  NoHost = NoHost
  MaxConnects = 2
  MaxPtys = 2
  MaxServers = 4
  MaxProcs = 7
  MaxCalls = 3
  Budgets <- MCBudgets
INVARIANTS NoServerIsAbandoned WindowIsServed AnswerIsOwn MastersAreHeld
CHECK_DEADLOCK FALSE
