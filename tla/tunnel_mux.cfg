SPECIFICATION FairSpec
CONSTANTS
    c1 = c1
    NoStream = NoStream
    Ids = {c1}
    Loads <- Mixed
CHECK_DEADLOCK FALSE
INVARIANTS
    DeliveredInOrder
    NothingLostWhileOpen
PROPERTIES
    FinsSettle
    PumpsEndTogether
