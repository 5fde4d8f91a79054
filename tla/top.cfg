SPECIFICATION FairSpec
CONSTANTS
    Container = {1, 2}
    Memory <- MoreMemory
    ListEvery = 2
    MinInterval = 1
    MaxInterval = 2
    Interval = 2
    Running = {1, 2}
    MaxPasses = 3
    MaxFaults = 1
    MaxEvents = 1
    Sort = 0
    MaxKeys = 2
    NoName = 0
CHECK_DEADLOCK FALSE
INVARIANTS
    StoreIsLastPass
    RateIsTrue
    StopsWhatWasAsked
PROPERTIES
    AsksAboutMarkedRow
    QuitEnds
