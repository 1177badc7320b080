SPECIFICATION Spec
CONSTANTS
    c0 = c0
    c1 = c1
    c2 = c2
    o1 = o1
    o2 = o2
    k1 = k1
    k2 = k2
    w = w
    CPU <- OneCPU
    Boot = c0
    Obj <- TwoObj
    Caller <- TwoCaller
    Worker = w
    MaxResub = 1
    None = None
INVARIANTS
    CallbackOrder
    NoPanic
