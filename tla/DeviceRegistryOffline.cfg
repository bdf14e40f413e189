SPECIFICATION FairSpec
CONSTANTS
  Device = {d1}
  Account = {a1}
  NoAccount = NoAccount
  Worker = {w1}
  MaxCert = 1
  MaxRestarts = 0
PROPERTY OfflineDeviceDeprovisions
CHECK_DEADLOCK FALSE
