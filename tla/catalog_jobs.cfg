SPECIFICATION MCFairSpec
CONSTANTS
    low = low
    high = high
    i1 = i1
    c1 = c1
    w1 = w1
    Files <- MCFiles
    NProducts = 2
    Inputs = {i1}
    Prices = {low, high}
    Categories = {c1}
    Syncs = {s1}
    Jobs = {w1, w2}
    PageSize = 1
    BatchSize = 1
    MaxBatches = 1
    MaxRuns = 2
    MaxChanges = 1
    MaxCrashes = 1
    None = None
INVARIANTS
    TypeOK ReadyIsSearchable
PROPERTIES
    OnlyGoneAreTakenDown Unstuck
