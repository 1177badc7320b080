SPECIFICATION FairSpec
CONSTANTS
    c0 = c0
    c1 = c1
    c2 = c2
    o1 = o1
    o2 = o2
    k1 = k1
    k2 = k2
    w = w
    CPU <- TwoCPU
    Boot = c0
    Obj <- OneObj
    Caller <- OneCaller
    Worker = w
    MaxResub = 0
    None = None
PROPERTIES
    Reclaimed
