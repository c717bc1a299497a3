CONSTANTS
    FastHorizon = 2
    SlowHorizon = 5
    FastPeriod = 1
    SlowPeriod = 4
    MaxLate = 1
    NaN = NaN
    None = None
SPECIFICATION Spec
INVARIANTS ShownIsStated KeptUpIsShown
PROPERTY EverySensorReports
