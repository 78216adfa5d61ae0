SPECIFICATION FairSpec
CONSTANTS
    Posters = {h1}
    Getters = {h2}
    Uuids = {"u1", "u2"}
    Room = 1
    MaxTasks = 4
INVARIANTS TypeOK Pipeline TasksAlive
PROPERTIES TaskTaken WorkerStops
CHECK_DEADLOCK FALSE
