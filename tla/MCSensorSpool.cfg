CONSTANTS
  Refused = {2}
  QueueSize = 1
  SpoolLimit = 2
  Retries = 1
  MaxPackets = 3
  MaxFiles = 6
  MaxFaults = 2
SPECIFICATION FairSpoolSpec
INVARIANT
  EvidenceKept
PROPERTY
  EvidenceArrives
