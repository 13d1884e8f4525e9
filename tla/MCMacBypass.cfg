CONSTANTS
    Hosts = {h1, h2}
    MaxRuns = 1
SPECIFICATION RoutesSpec
INVARIANT OffTheTunnel
CHECK_DEADLOCK FALSE
