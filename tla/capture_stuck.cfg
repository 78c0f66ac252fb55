SPECIFICATION FairSpec
CONSTANTS
  Chains = {2, 4}
  MaxTip = 3
  Blocks <- MCBlocks
  BlockAt <- MCBlockAt
  HeightOf <- MCHeightOf
  Parent <- MCParent
  FirstTips = {3}
  MaxReorgDepth = 3
  MaxReorgs = 1
  Intervals <- OneHeight
  Modes = {"create", "resume", "overwrite"}
  TipDistance = 1
  MaxFaults = 1
  Stamps = {s1}
  ToolVersion = tool
  Absent = Absent
  Torn = Torn
PROPERTIES ResumeConverges
