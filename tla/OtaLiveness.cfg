SPECIFICATION FairSpec
CONSTANTS
  Versions = {1, 2}
  NumBlocks = 3
  BlocksPerSector = 2
  Good = {1, 2}
  Hung = {}
  Oversize = {}
  Window = 1
PROPERTIES
  UpdateLands
