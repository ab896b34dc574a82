\* Descriptors 0, 1 and 2, opened and closed by the rest of the process as well.
SPECIFICATION FairSpec
CONSTANTS
  Fd = {0, 1, 2}
  MaxCmds = 1
INVARIANTS
  SampleTypeOK
  SocketOwned
  OneInjector
PROPERTIES
  KeptWhileUp
  ShutdownEndsJoin
  ConnectsInTheEnd
  StopCommandReturns
