CONSTANTS
  Flows = {"server", "client", "other", "later"}
  Connection <- MCConnection
  Wire <- MCWire
  Ends <- MCEnds
  Isn <- MCIsn
  SeqSpace = 16
  MaxSize = 5
  Secured <- MCSecured
  Files <- MCFiles
  MaxSegment = 5
SPECIFICATION StreamSpec
INVARIANTS
  FramesAreWhole
  RunsAreDecoded
  SecuredStaysOpaque
