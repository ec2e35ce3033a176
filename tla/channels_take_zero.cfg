SPECIFICATION Spec
CONSTANTS
    Values <- MCValues
    MaxTake = 4
INVARIANTS
    TakeOnlyTakes
