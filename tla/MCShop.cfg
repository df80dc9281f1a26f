SPECIFICATION ShopSpec
CONSTANTS
  lower = lower
  mixed = mixed
  other = other
  p1 = p1
  p2 = p2
  f1 = f1
  f2 = f2
  id1 = id1
  id2 = id2
  i1 = i1
  r1 = r1
  r2 = r2
  UserIds <- MCUserIds
  Spellings <- MCSpellings
  Fold <- MCFold
  Passwords <- MCPasswords
  Profiles <- MCProfiles
  Requests <- MCRequests
  Ids <- MCIds
SYMMETRY Symmetry
VIEW View
INVARIANTS
  ShopTypeOK
  OneAccountPerEmail
  OnlyForeseenRefusals
  PartiesExist
  ShownStays
PROPERTIES
  FirstWriterStays
  WelcomedMayEnter
