SPECIFICATION Spec
CONSTANTS
    MaxBatches = 2
    RetryMax = 2
INVARIANT ResponseAccepted
