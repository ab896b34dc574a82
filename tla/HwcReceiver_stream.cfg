\* Any header, any plane count, signals: the stream may get out of step.
SPECIFICATION Spec
CONSTANTS
  Remote = {r1}
  Handle = {h1, h2}
  NoHandle = NoHandle
  Events <- EventKind
  Planes = {0, 1}
  MaxPlanes = 1
  LogEnabled = TRUE
  Interrupts = TRUE
  MaxMsgs = 2
SYMMETRY Symmetry
INVARIANTS
  TypeOK
  NoUseAfterFree
  StoppedMeansJoined
  LogDocumentsWhole
PROPERTY FrameProtocol
