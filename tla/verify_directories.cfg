SPECIFICATION Spec
CONSTANTS
  Chains = {1, 3}
  MaxTip = 2
  Blocks <- MCBlocks
  BlockAt <- MCBlockAt
  HeightOf <- MCHeightOf
  Parent <- MCParent
  Intervals <- MCIntervals
  Stamps = {s1}
  ToolVersion = tool
  Absent = Absent
  Torn = Torn
  Directories <- MCDirectories
INVARIANT AcceptedIsOneChain
INVARIANT SealedChainPasses
CHECK_DEADLOCK FALSE
