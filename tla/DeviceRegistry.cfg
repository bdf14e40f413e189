SPECIFICATION Spec
CONSTANTS
  Device = {d1}
  Account = {a1, a2}
  NoAccount = NoAccount
  Worker = {w1, w2}
  MaxCert = 3
  MaxRestarts = 1
INVARIANTS
  TypeOK
  LatestCertOnItsWay
  DeprovisionReachesConnected
  ClaimedOnce
PROPERTY LifecycleSpec
CHECK_DEADLOCK FALSE
SYMMETRY MCSymmetry
CONSTRAINT MCOneDisturbance
