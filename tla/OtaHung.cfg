SPECIFICATION FairSpec
CONSTANTS
  Versions = {1, 2}
  NumBlocks = 2
  BlocksPerSector = 1
  Good = {1}
  Hung = {2}
  Oversize = {}
  Window = 1
PROPERTIES
  TrialIsTimed
