SPECIFICATION HostSpec
CHECK_DEADLOCK FALSE
CONSTANTS
    p1 = p1
    p2 = p2
    w1 = w1
    w2 = w2
    old = old
    new = new
    Proc = {p1, p2}
    Writer = {w1, w2}
    Version = {old, new}
    Old = old
    Chunks = 2
    Nobody = Nobody
    Other = Other
    Hole = Hole
    Casts <- AnyThree
INVARIANTS HostIInv InterfaceSound PublishedWhole
SYMMETRY Symm
