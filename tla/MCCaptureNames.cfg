SPECIFICATION Spec
CHECK_DEADLOCK FALSE
CONSTANTS
    eth0 = eth0
    lo = lo
    a = a
    b = b
    A = A
    AAAA = AAAA
    h1 = h1
    h2 = h2
    Label = {a, b}
    QType = {A, AAAA}
    Misread = Misread
    MaxLabels = 2
    Host = {h1, h2}
    MaxSni = 2
    Panic = Panic
    Iface = {eth0, lo}
    Frames <- AllFrames
    Task = Task
    Free = Free
    Sni = Sni
    MaxFrames = 1
INVARIANT LinesAsAsked
