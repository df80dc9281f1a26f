SPECIFICATION Spec
CONSTANTS
  ann = ann
  bob = bob
  nobody = nobody
  i1 = i1
  i2 = i2
  i3 = i3
  None = None
  Ids <- MCIds
  Accounts <- MCAccounts
  Barbers <- MCBarbers
  Times <- MCTimes
  AskedBarbers <- MCAskedBarbers
  Bounds <- MCBounds
  Limits <- MCLimits
SYMMETRY Symmetry
INVARIANTS
  TypeOK
  OneListing
  PageIsASchedule
  SteadyAnswerAgrees
  QuietWalkIsComplete
