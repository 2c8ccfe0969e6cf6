SPECIFICATION Spec
CHECK_DEADLOCK FALSE
CONSTANTS
    c1 = c1
    c2 = c2
    e1 = e1
    e2 = e2
    e3 = e3
    e4 = e4
    pid1 = pid1
    pid2 = pid2
    nginx = nginx
    bash = bash
    NoSlot = NoSlot
    Table = {"tcp", "udp"}
    Requested = nginx
    Key = {pid1, pid2}
    CPU = {c1, c2}
    Comm = {nginx, bash}
    Target = {nginx}
    CommandLines <- AllLines
    Names <- NamesOf
    Sizes = {0, 1}
    MaxSends <- SendsOf
    MaxChanges = 2
    Slot = {e1, e2, e3, e4}
    MaxEntries = 2
INVARIANTS IInv ExactUnlessLate SumFresh ForeignOnlyFromStart
SYMMETRY Symm
