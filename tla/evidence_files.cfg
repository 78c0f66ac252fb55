SPECIFICATION Spec
CONSTANTS
  Pools <- MCPools
  Reconstructed <- MCReconstructed
  MaxMoney = 3
  Absent = Absent
  Text = Text
  Networks = {"mainnet", "testnet"}
  Network = "mainnet"
  UnsafePaths = {0, 4}
  MalformedDigests <- MCMalformedDigests
  Nothing = Nothing
  SchemaMajor = 1
  MaxSize = 8
  Operators = {"first", "second"}
  Responses <- MCResponses
  Torn = Torn
  Height = 2
INVARIANTS
  IndependentCapturesAgree
  
  StoredIsWhatWasSaid
  ManifestListsBundle
  ValidatedIsFinished
CHECK_DEADLOCK FALSE
