\* Masks that come and go, on the live bus and in replays.
CONSTANTS
    NumZones = 2
    Feed <- MCFeed
    MaxTime = 2
    Missing = Missing
    Late = 2
SPECIFICATION Spec
INVARIANT MaskRetracts
