SPECIFICATION Spec
CONSTANTS
    Posters = {h1}
    Getters = {h2}
    Uuids = {"u1", "u2"}
    Room = 2
    MaxTasks = 2
INVARIANT ResultMatchesRequest
CHECK_DEADLOCK FALSE
