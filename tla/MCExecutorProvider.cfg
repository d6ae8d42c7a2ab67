SPECIFICATION ProviderSpec
CONSTANTS
  loop = loop
  other = other
  Callers <- MCCallers
  Home <- MCHome
  NumExecutors = 2
  MaxSize = 2
  MaxUsec = 2
  MaxNow = 3
  MaxTurns = 3
INVARIANTS
  LoadIsMeasured
  LeastLoaded
