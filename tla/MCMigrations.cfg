SPECIFICATION FairSpec
CONSTANTS
  f1 = f1
  f2 = f2
  f3 = f3
  r1 = r1
  r2 = r2
  r3 = r3
  Files <- MCFiles
  Repeatable <- MCRepeatable
  Runners <- MCRunners
INVARIANTS
  TypeOK
  DoneMeansUpToDate
PROPERTIES
  OneFileAtATime
  EveryRunEnds
