SPECIFICATION FairSpec
CONSTANTS
    Uuids = {"u1", "u2"}
    NoUuid = ""
    Dirs = {"d1", "d2"}
    Requests <- AllRequests
    ExitAtStart = {TRUE, FALSE}
    MaxTasks = 3
INVARIANTS TypeOK ReferenceValid ResultComplete ServedInOrder NothingForgotten
PROPERTIES TaskCompletes ShutdownEnds
CHECK_DEADLOCK FALSE
