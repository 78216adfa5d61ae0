SPECIFICATION FairSpec
CONSTANTS
    Producers = {p1}
    Consumers = {c1}
    Values = {a, b}
    None = None
    Cap = 3
INVARIANTS TypeOK SlotLifetimes AcceptedIsHeld
PROPERTIES ImplementsFifo PushReturns SlotDrained
