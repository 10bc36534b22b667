SPECIFICATION FairSpec
CONSTANTS
  NumOrderers = 3
  NumPeers = 2
  NumOrgs = 1
  Retries = 2
  SystemChannel = FALSE
  MaxFaults = 4
INVARIANTS
  TypeOK
  UpIsComplete
  PeersJoinLast
PROPERTIES
  RestartSucceeds
  UpRecovers
