SPECIFICATION Spec
CONSTANTS
    Address = {a1, a2}
    Device = {d1, d2}
    None = None
    MaxKeys = 9
    MaxFaults = 2
INVARIANTS
    TypeOK
    RunningIsWhole
    RefusedOnlyWhenTorn
    DevicesAccept
