SPECIFICATION FairSpec
CONSTANTS
  NumOrderers = 1
  NumPeers = 2
  NumOrgs = 2
  Retries = 2
  SystemChannel = TRUE
  MaxFaults = 4
INVARIANTS
  UpIsComplete
  CreatorSendsAnchors
PROPERTIES
  UpRecovers
