SPECIFICATION FairSpec
CONSTANTS
    c1 = c1
    c2 = c2
    f1 = f1
    f2 = f2
    v1 = v1
    v2 = v2
    Channel = {c1, c2}
    Field = {f1, f2}
    Value = {v1, v2}
    Absent = Absent
    Worker = {w1, w2}
    Settings = {v2}
    Patch <- MCPatch
    Document <- MCDocument
    Complete = TRUE
    MaxTime = 3
    MaxDrops = 1
INVARIANTS
    TypeOK
    VersionFixesContent
PROPERTIES
    NothingIsTakenBack
    CacheCatchesUp
CHECK_DEADLOCK FALSE
