SPECIFICATION Spec
CONSTANTS
  Remote = {1, 2}
  NoRemote = 0
  Faults = TRUE
  ClipFrames = 1
  MaxEvents = 4
  MaxServers = 2
  MaxExtra = 1
INVARIANTS
  TypeOK
  BuffersInStep
  FramesStable
  ContentInOrder
PROPERTIES
  ReplayFaithful
  ReplayEnds
CHECK_DEADLOCK FALSE
