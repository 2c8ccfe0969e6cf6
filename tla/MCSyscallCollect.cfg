SPECIFICATION Spec
CHECK_DEADLOCK FALSE
CONSTANTS
    c1 = c1
    c2 = c2
    e1 = e1
    e2 = e2
    e3 = e3
    e4 = e4
    read = read
    futex = futex
    app = app
    other = other
    NoSlot = NoSlot
    Table = {"SYSCALL_COUNTS"}
    Slot = {e1, e2, e3, e4}
    MaxEntries = 2
    Target = {app}
    CPU = {c1, c2}
    Key = {read, futex}
    Comm = {app, other}
    MaxEvents = 3
SYMMETRY Symm
INVARIANTS IInv ReportsAccounted ForeignOnlyFromStart
