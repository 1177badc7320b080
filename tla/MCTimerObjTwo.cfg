SPECIFICATION FairSpec
CONSTANTS
    CPU <- TwoCPUs
    Thread <- TwoThreads
    Timer <- OneTimer
    MaxCount = 2
    None = None
    c0 = c0
    c1 = c1
    a = a
    b = b
    timer = timer
INVARIANTS TypeOK ObjectAlive NoPanic ArmedAgrees SettimeQuiet OneShotOnce ReaderWoken
PROPERTY ClosedFreed
