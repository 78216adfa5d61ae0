SPECIFICATION FairSpec
CONSTANTS
    Files <- AllFiles
    BufLen = 2
    MaxOps = 3
INVARIANTS LinesAsGetline OneOutstanding DescriptorMatches
PROPERTY CallEnds
CHECK_DEADLOCK FALSE
