SPECIFICATION Spec
CONSTANTS
    Inputs <- MCInputs
    Boundary <- MCBoundary
    Letters <- MCLetters
    Dispo = "cd"
    Names <- MCNames
    Files <- MCFiles
    MaxData = 5
INVARIANTS
    DataKept
    FormRight
CHECK_DEADLOCK FALSE
