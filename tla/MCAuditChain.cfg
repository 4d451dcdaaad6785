CONSTANTS
  Sessions = {s1, s2}
  Bodies = {b1, b2}
  MaxId = 4
SPECIFICATION FairSpec
INVARIANTS
  TypeOK
  NoFork
  VerifyNeverRejects
PROPERTIES
  AppendOnly
  ImplementsTrail
  LockIsGranted
