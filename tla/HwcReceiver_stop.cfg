\* A server that keeps to the protocol: buffers come, are shown and go.
SPECIFICATION FairSpec
CONSTANTS
  Remote = {r1, r2}
  Handle = {h1, h2, h3}
  NoHandle = NoHandle
  Events <- BufferEvents
  Planes = {2}
  MaxPlanes = 2
  LogEnabled = TRUE
  Interrupts = FALSE
  MaxMsgs = 3
INVARIANTS
  HandlesLive
  NoLeakedHandle
PROPERTY StopReturns
