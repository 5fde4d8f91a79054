SPECIFICATION FairSpec
CONSTANTS
    app = app
    App = App
    t1 = t1
    t2 = t2
    None = None
    Host = {app, App}
    Target = {t1, t2}
    Edit <- Edits
    Cmd = {1, 2}
    Lower <- Fold
    Req = {1}
    Container = {t1}
    Left <- Tables0
    MaxCommands = 2
    MaxFaults = 1
INVARIANTS
    AckedIsStored
    KeptRouteNeverMissed
PROPERTIES
    StoreIsTable
    ProxyFollowsFile
