\* Everything at once: user id, frames, calls, commands, lost connections.
SPECIFICATION FairSpec
CONSTANTS
  HasUserId = TRUE
  Threads = {"caller", "data"}
  ServerCloses = TRUE
  PartialReads = TRUE
  MaxInbox = 2
INVARIANTS
  TypeOK
  WokenByItsAnswer
  DefaultOnlyAfterReconnect
PROPERTIES
  Reconnects
