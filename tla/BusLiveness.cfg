\* One unit is ten seconds: a device is lost after 3, the bus silent after 6.
CONSTANTS
    Devices = {d1, d2}
    LostAfter = 3
    SilentAfter = 6
    MaxStall = 2
    MaxLag = 1
    MaxTime = 18
SPECIFICATION Spec
INVARIANTS SilenceIsReal SilenceDetected LossIsReal LossDetected
