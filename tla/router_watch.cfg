SPECIFICATION FairSpec
CONSTANTS
    ip1 = ip1
    ip2 = ip2
    watcher = watcher
    other = other
    NoAddress = NoAddress
    Address = {ip1, ip2}
    Proc = {watcher, other}
    Watch = watcher
    MaxBytes = 2
    KeepFiles = 2
    MaxMoves = 1
    MaxFaults = 1
INVARIANTS
    LogKeepsRecentLines
PROPERTY
    RecordFollowsAddress
