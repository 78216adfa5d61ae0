SPECIFICATION Spec
CONSTANTS
    Producers = {p1, p2}
    Consumers = {c1}
    Values = {a, b}
    None = None
    Cap = 3
INVARIANT AcceptedIsHeld
