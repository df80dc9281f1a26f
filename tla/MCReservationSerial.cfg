SPECIFICATION FairSpec
CONSTANTS
  ann = ann
  bob = bob
  i1 = i1
  i2 = i2
  r1 = r1
  r2 = r2
  Notice = 1
  Accounts <- MCAccounts
  Barbers <- MCBarbers
  AskedBarbers <- MCAskedBarbers
  Ids <- Ids2
  Requests <- Requests1
  Periods <- MCPeriods
  Horizon = 2
PROPERTIES
  EveryCallEnds
  ImplementsCalendar
  CancelledIsFinal
