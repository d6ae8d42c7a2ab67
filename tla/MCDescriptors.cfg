SPECIFICATION Spec
CONSTANTS
  t1 = t1
  t2 = t2
  fd1 = fd1
  fd2 = fd2
  fd3 = fd3
  fd4 = fd4
  Threads <- MCThreads
  Fds <- MCFds
  Expire = 1
  MaxNow = 3
SYMMETRY Symmetry
INVARIANTS
  TypeOK
  OneOwner
PROPERTIES
  AddressAge
