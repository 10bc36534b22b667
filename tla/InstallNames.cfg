SPECIFICATION FairSpec
CONSTANTS
  p1 = p1
  p2 = p2
  Runs = {r1, r2}
  Params = {p1}
  NumNames = 2
  NumOrgs = 2
  NumPeers = 2
  Retries = 2
  VersionOf <- MCVersionOf
  Quorums <- MCMajority
  Overlap = FALSE
  MaxBuilds = 1
PROPERTIES
  KeepsContract
  Termination
\* Every run has ended and no transaction is left.
CHECK_DEADLOCK FALSE
