SPECIFICATION Spec
CHECK_DEADLOCK FALSE
CONSTANTS
    c1 = c1
    c2 = c2
    e1 = e1
    e2 = e2
    e3 = e3
    e4 = e4
    NoSlot = NoSlot
    Width = 2
    MaxRanges = 3
    StunHeader = 8
    MaxClassic = 1
    Table = {"STUN_PASS_COUNTS", "DRY_RUN_MAP_A", "DRY_RUN_MAP_B"}
    Key = {0, 1, 2, 3}
    Comm = {"none"}
    Target = {}
    CPU = {c1, c2}
    Slot = {e1, e2, e3, e4}
    MaxEntries = 2
    CommandLines <- AllLines
    Packets <- PacketsUnder
    Questions <- AllQuestions
    MaxPackets <- PacketsOf
INVARIANTS IInv PositionsAgree BlockedAsAsked DropsAsAsked TestTellsTheTruth DropsAccounted StunFresh
PROPERTY DryRunEpochs
SYMMETRY Symm
