\* A signal makes poll() fail, and the receiver reconnect with its old handles.
SPECIFICATION Spec
CONSTANTS
  Remote = {r1}
  Handle = {h1, h2}
  NoHandle = NoHandle
  Events <- BufferEvents
  Planes = {1}
  MaxPlanes = 1
  LogEnabled = FALSE
  Interrupts = TRUE
  MaxMsgs = 2
INVARIANT NoLeakedHandle
