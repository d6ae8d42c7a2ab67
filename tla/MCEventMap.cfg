SPECIFICATION SharedSpec
CONSTANTS
  fd1 = fd1
  fd2 = fd2
  h1 = h1
  h2 = h2
  Pipe = Pipe
  Fds <- MCFds
  MaxFiles = 3
  MaxCalls = 2
  CloseEarly = FALSE
  Holders <- MCHolders
  Small = 4
  DefaultSize = 5
  Sizes <- MCSizes
  CutData = FALSE
SYMMETRY Symmetry
\* With every file closed the loop waits for good.
CHECK_DEADLOCK FALSE
INVARIANTS
  TypeOK
  CallbackIsCurrent
  OneSoundBuffer
PROPERTIES
  SilentAfterDelete
