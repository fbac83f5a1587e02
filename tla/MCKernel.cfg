SPECIFICATION MCFairSpec
CONSTANTS
  MaxKernels = 3
  MaxCalls = 3
  CallsBesideWork = 2
  Execs = {x1}
  Requests = {r1, r2}
  KeepAlives = {r1}
  Queries = {q1, q2}
INVARIANTS
  TypeOK
  SessionIsServed
  OneKernelLives
  CrashIsHeard
  AgentStaysPut
  ChannelIsFree
PROPERTIES
  KeepsContract
  RequestsSettle
  CallsReturn
CHECK_DEADLOCK FALSE
