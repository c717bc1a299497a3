CONSTANTS
    Observers = {publishLoop, statusMap}
    MaxFailures = 2
    MaxSkips = 2
SPECIFICATION Spec
INVARIANTS NoWriteAfterClose TotalsExact
PROPERTIES ObservedNeverFalls ReadsAgain
