SPECIFICATION Spec
CONSTANTS
    Requests <- MCRequests
    GlobalLists <- MCGlobalLists
    ServerTimeo = 4
    MaxTimeo = 10
    MilliSec = 4
    IntLimit = 16
    MaxSeq = 3
INVARIANTS HandlerGuarded AftersFollowReply KeepAliveRule
CHECK_DEADLOCK FALSE
