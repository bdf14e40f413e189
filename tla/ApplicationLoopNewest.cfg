SPECIFICATION Spec
CONSTANTS
    c1 = c1
    c2 = c2
    Channel = {c1, c2}
    Slot = {1, 2}
    MaxUpdates <- TwoChannels
    ActiveVersion = {1}
    HeartbeatPolls = 2
    MaxFaults = 0
INVARIANTS
    NewestWins
