SPECIFICATION Spec
CONSTANTS
    web = web
    db = db
    v1 = v1
    v2 = v2
    NoService = NoService
    Service = {web, db}
    Version = {v1, v2}
    Address = {a1, a2}
    MaxPort = 6
    ForeignPort = {1}
    Composes <- Edits
    MaxFaults = 1
    MayKill = TRUE
INVARIANTS
    StateFileTrue
    UpConverges
    CreatedPortsDistinct
    DependenciesFirst
