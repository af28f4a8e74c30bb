SPECIFICATION Spec
CONSTANTS
    low = low
    high = high
    i1 = i1
    c1 = c1
    w1 = w1
    Files = {}
    NProducts = 1
    Inputs = {i1}
    Prices = {low}
    Categories = {c1}
    Syncs = {s1}
    Jobs = {w1}
    PageSize = 2
    BatchSize = 1
    MaxBatches = 1
    MaxRuns = 3
    MaxChanges = 2
    MaxCrashes = 0
    None = None
INVARIANT
    ReturnedIsOffered
