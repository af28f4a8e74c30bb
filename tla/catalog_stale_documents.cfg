SPECIFICATION Spec
CONSTANTS
    low = low
    high = high
    i1 = i1
    c1 = c1
    w1 = w1
    Files = {}
    NProducts = 1
    Inputs = {i1, i2}
    Prices = {low}
    Categories = {c1}
    Syncs = {s1}
    Jobs = {w1}
    PageSize = 2
    BatchSize = 1
    MaxBatches = 1
    MaxRuns = 2
    MaxChanges = 1
    MaxCrashes = 0
    None = None
INVARIANT
    ReadyMatchesRow
