SPECIFICATION RequestSpec
CONSTANTS
  Year <- MCYear
  Upper <- MCUpper
  Commands <- MCCommands
  Workers = {w1, w2}
  None = None
INVARIANT
  OwnRequest
