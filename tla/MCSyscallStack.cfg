SPECIFICATION Spec
CHECK_DEADLOCK FALSE
CONSTANTS
    c1 = c1
    c2 = c2
    e1 = e1
    e2 = e2
    e3 = e3
    b1 = b1
    b2 = b2
    s1 = s1
    s2 = s2
    s3 = s3
    NoSlot = NoSlot
    NoStack = NoStack
    Table = {"STACK_COUNTS"}
    Slot = {e1, e2, e3}
    MaxEntries = 2
    Target = {"app"}
    CPU = {c1, c2}
    Key = {b1, b2}
    Comm = {"app", "other"}
    Sys = {"read", "futex"}
    Zero = "read"
    Stack = {s1, s2, s3}
    IdOf <- MCIdOf
    Pid = {1, 2}
    Calls <- MCCalls
    MaxEvents = 3
SYMMETRY Symm
INVARIANTS IInv ShownAsCounted ProcessHit ForeignOnlyFromStart
