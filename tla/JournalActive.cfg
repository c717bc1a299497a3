\* Fault lifecycle with crashes, failed writes and torn lines.
CONSTANTS
    NumEntries = 2
    CountMod = 3
    MaxRecur <- MCRecur
    MaxLosses = 0
    MaxEvents = 4
    Tearing = TRUE
    Missing = Missing
SPECIFICATION Spec
INVARIANT ActiveIsListed
