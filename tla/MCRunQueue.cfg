SPECIFICATION Spec
CONSTANTS
    t1 = t1
    t2 = t2
    t3 = t3
    Idle = Idle
    Thread <- Threads
    Fair = 1
    Lowest = 2
    Slice = 2
    Granularity = 1
    Bonus = 1
    MaxLead = 2
    Prios <- SomePrios
    Weighted <- TickWeighted
INVARIANTS TypeOK BestRuns
PROPERTY Served
