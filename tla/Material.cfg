SPECIFICATION Spec
CONSTANTS
  Networks <- MCNetworks
  MaxOrgs = 2
  MaxNodes = 2
  NodeOUs = FALSE
  NoFile = NoFile
  Unreadable = Unreadable
  MaxCommands = 4
  MaxCuts = 1
INVARIANTS
  TypeOK
  SuccessIsWhole
  SignedByOwnCA
  ArtifactsNameCAs
PROPERTIES
  KeptWithoutForce
  GenerateRepairs
\* The user runs no more commands.
CHECK_DEADLOCK FALSE
