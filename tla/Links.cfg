CONSTANTS
    MaxConns = 3
    MaxFaults = 2
    MaxViews = 1
SPECIFICATION LinkSpec
INVARIANTS OneLiveLink GreetedFirst
PROPERTIES LinkUp
CHECK_DEADLOCK FALSE
