SPECIFICATION FairSpec
CONSTANTS
  Chains = {2, 3, 5}
  MaxTip = 4
  Blocks <- MCBlocks
  BlockAt <- MCBlockAt
  HeightOf <- MCHeightOf
  Parent <- MCParent
  FirstTips = {2}
  MaxReorgDepth = 1
  MaxReorgs = 2
  Intervals <- TwoHeights
  Modes = {"create", "resume"}
  TipDistance = 1
  MaxFaults = 2
  Stamps = {s1}
  ToolVersion = tool
  Absent = Absent
  Torn = Torn
INVARIANTS StoredIsSettled SuccessIsVerifiable
PROPERTIES ResumeConverges
