\* The live bus, and replays that deliver frames out of order.
CONSTANTS
    NumZones = 2
    Feed <- MCFeed
    MaxTime = 2
    Missing = Missing
    Late = 2
SPECIFICATION Spec
INVARIANTS ZonePresence CountdownOnlyWhileHeld
PROPERTY NeverOlder
