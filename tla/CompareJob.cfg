SPECIFICATION FairSpec
CONSTANTS
    Nodes <- TreeNodes
    Root = "root"
    Tops = {"root", "else"}
    Children <- TreeChildren
    Kind <- TreeKind
    Untyped = {"f2", "u1", "l2"}
    Servers = {"std", "other"}
    Std = "std"
    Batch = 1
    MaxTasks = 2
INVARIANTS MergedAligned NoDirForgotten WalkComplete LeftoverExplained
PROPERTY TaskEnds
CHECK_DEADLOCK FALSE
