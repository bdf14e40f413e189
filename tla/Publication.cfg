SPECIFICATION FairSpec
CONSTANTS
    DeviceRegistration = {r1, r2}
    Callback = {k1, k2}
    None = None
    MaxSessions = 2
    MaxEvents = 2
    MaxWire = 2
INVARIANTS
    TypeOK
    HostHasRegistration
    StatusFollowsRegistration
PROPERTIES
    RegistrationArrives
