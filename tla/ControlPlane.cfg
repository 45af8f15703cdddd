SPECIFICATION ControlSpec
CONSTANTS
  ExecutionFailureLimit = 2
  RpcFailureLimit = 1
  JupiterFailureLimit = 1
  UnknownTxLimit = 1
  LoginClients = {c1, c2}
  SessionTokens = {s1, s2}
  MaxFailures = 2
  Window = 1
  TTL = 2
  MaxTime = 3
SYMMETRY Interchangeable
INVARIANTS
  ControlTypeOK
  NormalMeansBelowLimits
  LimiterIsExact
PROPERTIES
  PauseLiftedOnlyByLiveSession
  DeadSessionsStayDead
