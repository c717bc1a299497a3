\* The run ends when the bounds on frames and runs are reached.
CONSTANTS
    RegBytes = 1
    Frames <- MCFrames
    Times = {1}
    Instants = {0, 1, 2, 3}
    Archives <- MCArchives
    Cap = 10
    RingSize = 2
    Windows = {1, 2}
    MaxFrames = 4
    MaxRuns = 3
    MaxStatFails = 1
SPECIFICATION Spec
INVARIANTS WithinCap NoHoles RingAgrees TablesAreRight TimelinesAreRight
CHECK_DEADLOCK FALSE
