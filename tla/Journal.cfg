\* Fault lifecycle and power losses against the daemon's starts, with crashes,
\* failed writes and torn lines.
CONSTANTS
    NumEntries = 2
    CountMod = 3
    MaxRecur <- MCRecur
    MaxLosses = 2
    MaxEvents = 3
    Tearing = TRUE
    Missing = Missing
SPECIFICATION Spec
INVARIANTS ReplayYieldsMemory ListedIsKnown GapIsSound
