SPECIFICATION Spec
CONSTANTS
    c1 = c1
    c2 = c2
    t1 = t1
    t2 = t2
    q1 = q1
    q2 = q2
    w1 = w1
    x1 = x1
    Idle = Idle
    None = None
    Lowest = 1
    CPU <- TwoCPU
    Thread <- TwoThread
    Queue <- OneQ
    Waits <- EventWaits
    Waker <- OneWaker
    Killer <- NoOne
    Balance = TRUE
INVARIANTS TypeOK OneQueue NoAssertionFails NoThreadLost NoLostWakeup IdleTold
PROPERTIES PreemptedStays
