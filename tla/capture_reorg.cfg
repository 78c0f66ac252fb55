SPECIFICATION Spec
CONSTANTS
  Chains = {1, 4}
  MaxTip = 3
  Blocks <- MCBlocks
  BlockAt <- MCBlockAt
  HeightOf <- MCHeightOf
  Parent <- MCParent
  FirstTips = {3}
  MaxReorgDepth = 3
  MaxReorgs = 1
  Intervals <- OneHeight
  Modes = {"create", "resume"}
  TipDistance = 1
  MaxFaults = 2
  Stamps = {s1}
  ToolVersion = tool
  Absent = Absent
  Torn = Torn
INVARIANTS CompleteNames RecordedIsPresent
PROPERTIES ResumeKeepsEvidence
