SPECIFICATION FairSpec
CONSTANTS
    c1 = c1
    c2 = c2
    Channel = {c1}
    Slot = {1, 2}
    MaxUpdates <- OneChannel
    ActiveVersion = {1, 3}
    HeartbeatPolls = 2
    MaxFaults = 2
INVARIANTS
    TypeOK
    
PROPERTIES
    
    HostLearns
