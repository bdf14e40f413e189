SPECIFICATION Spec
CONSTANTS
  CaCert = CaCert
  DeviceCert = DeviceCert
  ConnSettings = ConnSettings
  Old = Old
  New = New
  Absent = Absent
  Torn = Torn
  File <- MCFile
  Content <- MCContent
  Bundles <- MCBundles
  Payloads <- MCOnePayload
  NameRank <- MCNameRank
  WriteRank <- MCWriteRank
  RotateRank <- MCRotateRank
  WipeRank <- MCWipeRank
  Faults = {"write", "sync", "rename", "unlink"}
  OrderedMetadata = TRUE
INVARIANTS
  TypeOK
  AllOrNothing
  AckedSurvives
PROPERTY AtomicSpec
CONSTRAINT MCBound
