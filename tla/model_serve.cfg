SPECIFICATION Spec
CONSTANTS
    r1 = r1
    r2 = r2
    r3 = r3
    f1 = f1
    f2 = f2
    None = None
    Repo = {r1, r2, r3}
    Listing <- Listings
    Length <- Lengths
    Recognised = {"Q4", "Q8"}
    Clean <- Same
    Operand <- Operands
    Name <- Names
    Before <- Pulled
    Proc = {1, 2}
    Port = {8080, 8081}
    MaxCommands = 3
    MaxFaults = 2
CHECK_DEADLOCK FALSE
INVARIANTS
    InstalledIsWhole
    OkMeansInstalled
    StatusTruthful
    ServerIsVisible
