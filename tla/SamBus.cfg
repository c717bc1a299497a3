\* Two registers on a bus with one second of stamp lag; backoffs 4 and 7, the cap.
CONSTANTS
    N = 2
    Interval <- MCInterval
    InterSendGap = 2
    PendingTimeout = 3
    FirstBackoff = 4
    MaxBackoff = 7
    MinInterval = 5
    RetryDelay = 5
    MaxLag = 1
    MaxTime = 11
SPECIFICATION BusSpec
INVARIANTS TypeOK Accounting RequestSpacing PendingBounded NoStarvation
           CreditIsEarned BlameIsEarnedInTime
