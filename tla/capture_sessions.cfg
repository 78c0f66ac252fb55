SPECIFICATION Spec
CONSTANTS
  Chains = {4}
  MaxTip = 3
  Blocks <- MCBlocks
  BlockAt <- MCBlockAt
  HeightOf <- MCHeightOf
  Parent <- MCParent
  FirstTips = {2, 3}
  MaxReorgDepth = 0
  MaxReorgs = 0
  Intervals <- Nested
  Modes = {"create", "resume", "overwrite"}
  TipDistance = 1
  MaxFaults = 1
  Stamps = {s1, s2}
  ToolVersion = tool
  Absent = Absent
  Torn = Torn
INVARIANTS TypeOK SuccessIsSealed 
PROPERTIES DoomedSessionTouchesNothing
