SPECIFICATION FairSpec
CONSTANTS
  Leash = 3
  TickPeriod = 1
  MaxStall = 1
  MaxGap = 1
  On1 = 2
  Off1 = 1
  On2 = 1
  Off2 = 1
  QueueCap = 2
  InboxCap = 2
  Arrivals <- MCArrivals
  Horizon = 6
INVARIANTS
  TypeOK
  LampInv
  ChannelNeverFills
  FactNeedsSession
  AcceptedFactHeld
  BoundedStaleness
  NoFalseAlarm
  PinFollowsMachine
PROPERTIES
  KeepsPromise
  LossIsShown
