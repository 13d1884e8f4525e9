CONSTANTS
    f1 = f1  f2 = f2  c1 = c1  c2 = c2
    Flows <- MCFlows
    Callers <- MCCallers
    Established = 3
    Closing = 2
    SweepEvery = 4
    MaxLate = 1
SYMMETRY MCSymmetry
SPECIFICATION Spec
INVARIANTS UsedIsKept Expires KnownWhenSent
