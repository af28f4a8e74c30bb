SPECIFICATION FairSpec
CONSTANTS
    Keys = {coffee, camping, skiing}
    Jobs = {j1, j2}
    Concurrency = 1
    MaxExpiries = 1
CHECK_DEADLOCK FALSE
INVARIANTS
    OneMaker NotMadeAgain
PROPERTY
    JobsEnd
