SPECIFICATION Spec
CONSTANTS
  Paths <- MCPaths
  EvidencePaths = {1, 2}
  Contents <- MCContents
  Size <- MCSize
  Depth <- MCDepth
  Bundles <- MCBundles
  Found <- MCFound
  Passing <- MCPassing
  Failing <- MCFailing
  MaxTotal = 4
  MaxEntries = 2
  MaxEntry = 3
  MaxDepth = 2
  MaxFaults = 2
  Absent = Absent
  Torn = Torn
INVARIANTS TypeOK DigestIsOfArchive ReproducedIsWhole  PackedIsReproduced
 
