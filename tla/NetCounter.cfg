SPECIFICATION Spec
CONSTANTS
  JoinTime = 1
  DhcpTime = 1
  DhcpRetries = 1
  BackoffInitial = 1
  BackoffMax = 2
  NoIpReset = 3
  OutageCap = 4
  RejoinAfterFailures = 2
PROPERTIES
  RejoinNeedsConnectFailures
