SPECIFICATION FairSpec
CONSTANTS
    Channel = {c1, c2}
    Uploader = {u1, u2, u3}
    None = None
    Lifetime = 3
    MaxViewers = 1
    MaxInbox = 2
    MaxFaults = 1
INVARIANTS
    TypeOK
    OneUploader
    StopsSoon
    RequestsStand
PROPERTIES
    ImagesKeepComing
