\* All three classes, with and without a user id.
SPECIFICATION FairSpec
CONSTANTS
  Objects = {"sensor", "audio_sink", "audio_source"}
  MaxParts = 3
  MaxConns = 2
INVARIANTS
  TypeOK
  CallbackWhole
  GreetedOnce
  DataAheadOfUserId
PROPERTIES
  Reconnects
