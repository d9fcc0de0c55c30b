SPECIFICATION FairSpec
CONSTANTS
  Versions = {1, 2, 12}
  NumBlocks = 2
  HexLen = 2
  MaxBuilds = 3
  MaxHead = 8
  ReadChunk = 3
  UsizeMod = 16
  TextMax = 4
  SlotSize = 2
INVARIANTS
  TypeOK
  HeadExact
  NothingLost
  WholeRelease
  FlashWithinSlot
  TextWithinBuffer
  AdvertisedIsWhole
  PreviousIsKept
  AsksForPublished
PROPERTIES
  KeepsRollout
  ReleaseReached
