SPECIFICATION Spec
CONSTANTS
    a = a
    b = b
    c = c
    None = None
    Thread <- ABC
    Mutex <- TwoMutexes
    Base <- Ranked
    Killed <- JustC
INVARIANTS TypeOK MutualExclusion HandoffGood SleeperHasWaker NoFalseCycle BoostJustified KnownInherits
