SPECIFICATION FlapSpec
CONSTANTS
  Leash = 4
  TickPeriod = 1
  MaxStall = 0
  MaxGap = 2
  On1 = 2
  Off1 = 1
  On2 = 1
  Off2 = 1
  QueueCap = 2
  InboxCap = 1
  Arrivals <- MCArrivals
  Horizon = 7
INVARIANTS
  PatternShowsDark
