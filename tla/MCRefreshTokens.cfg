SPECIFICATION Spec
CONSTANTS
  u1 = u1
  u2 = u2
  t1 = t1
  t2 = t2
  t3 = t3
  r1 = r1
  r2 = r2
  None = None
  Users <- Users2
  Tokens <- Tokens3
  Requests <- Requests2
  Lifetime = 0
  Horizon = 1
SYMMETRY Symmetry
INVARIANTS
  TypeOK
  RotationBurnsFirst
PROPERTIES
  RevocationIsPermanent
  SpentTokensSettle
  OnlyALoginReopens
  ImplementsLooseSessions
  ReuseRevokesAll
  LogoutRevokesItsToken
  
