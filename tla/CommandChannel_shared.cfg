SPECIFICATION Spec
CONSTANTS
  Reachable = {"acs", "ftc"}
  MaxSize = 2
  InitialSize = 1
  Lengths = {1}
  Sends = {}
  Closing = {}
  MaxConns = 1
INVARIANTS TypeMatchesData
