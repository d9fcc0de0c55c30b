SPECIFICATION Spec
CONSTANTS
  Versions = {1, 2, 3}
  NumBlocks = 3
  BlocksPerSector = 2
  Good = {1}
  Hung = {}
  Oversize = {3}
  Window = 1
INVARIANTS
  TypeOK
  OnlyWholeImages
  FallbackIsGood
PROPERTIES
  KeepsTrialBoot
