CONSTANTS
    Fields = {f1}
    Healths = {h1}
    Configs = {c1}
    Values = {v1}
    Vitals = {on, off}
    MaxWire = 1
    Beat = 2
    MaxChanges = 2
    MaxMishaps = 1
    Nothing = Nothing
SPECIFICATION Spec
INVARIANTS MemoryIsHonest
PROPERTY Converges
