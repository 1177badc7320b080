SPECIFICATION FairSpec
CONSTANTS
    CPU <- TwoCPUs
    Thread <- OneThread
    Timer <- TwoFrames
    Kinds <- AllKinds
    Killed <- OneThread
    None = None
    c0 = c0
    c1 = c1
    a = a
    frame1 = frame1
    frame2 = frame2
INVARIANTS TimeoutFrameAlive NoneLeftArmed
PROPERTY WaitEnds
