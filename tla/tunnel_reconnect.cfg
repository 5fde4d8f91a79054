SPECIFICATION Spec
CONSTANTS
    c1 = c1
    NoStream = NoStream
    Ids = {c1}
    Loads <- Short
CHECK_DEADLOCK FALSE
INVARIANT RunsUntilSignalled
