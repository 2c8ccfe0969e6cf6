SPECIFICATION FairSpec
CHECK_DEADLOCK FALSE
CONSTANTS
    c1 = c1
    c2 = c2
    e1 = e1
    e2 = e2
    e3 = e3
    e4 = e4
    pub = pub
    lan = lan
    v6 = v6
    app = app
    other = other
    NoSlot = NoSlot
    CPU = {c1}
    Ip = {pub}
    External = {pub}
    Ip6 = {}
    Listed = {}
    Comm = {app}
    Target = {app}
    Slot = {e1, e2}
    MaxEntries = 1
    MaxEvents = 1
PROPERTY
    CtrlCStops
