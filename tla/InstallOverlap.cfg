SPECIFICATION Spec
CONSTANTS
  p1 = p1
  p2 = p2
  Runs = {r1, r2}
  Params = {p1, p2}
  NumNames = 1
  NumOrgs = 3
  NumPeers = 3
  Retries = 2
  VersionOf <- MCVersionOf
  Quorums <- MCMajority
  Overlap = TRUE
  MaxBuilds = 1
INVARIANTS
  TypeOK
  AllOrgsReady
  ApprovedIsInstalled
  CommittedOnce
  SuccessIsCommitted
SYMMETRY RunSymmetry
\* Every run has ended and no transaction is left.
CHECK_DEADLOCK FALSE
