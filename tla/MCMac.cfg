CONSTANTS
    Hosts = {h1, h2}
    MaxRuns = 2
SPECIFICATION FairRoutesSpec
INVARIANTS TakenIsServed
PROPERTIES Restored Stops
CHECK_DEADLOCK FALSE
