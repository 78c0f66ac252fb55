SPECIFICATION Spec
CONSTANTS
  Networks <- MCNetworks
  Testnet = "testnet"
  Schedule <- MCSchedule
  Branches = 3
  Ironwood = 2
  MaxHeight = 7
  MaxBlocks = 3
  Cases <- MCCases
INVARIANTS
  MistakesCostNoRequest
  CredentialsAsNamed
  
  CapturedIsDecodable
  AdvisoryIsTrue
CHECK_DEADLOCK FALSE
