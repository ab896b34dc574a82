\* Two services, lengths that fit or not, lost connections, packets sent to one.
SPECIFICATION FairSpec
CONSTANTS
  Reachable = {"ams", "acs"}
  MaxSize = 2
  InitialSize = 1
  Lengths = {2, 3}
  Sends = {"ams"}
  Closing = {"ams"}
  MaxConns = 2
INVARIANTS
  TypeOK
  CallbackSeesItsMessage
  BodyFits
PROPERTIES
  FramingLostOnlyByReconnect
  Reconnects
  DestroyReturns
