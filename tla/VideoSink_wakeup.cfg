\* The answer may be read before the caller waits for it.
SPECIFICATION FairSpec
CONSTANTS
  HasUserId = FALSE
  Threads = {"caller"}
  ServerCloses = FALSE
  PartialReads = FALSE
  MaxInbox = 0
PROPERTY CallsReturn
