SPECIFICATION Spec
CONSTANTS
    CPU = {c1}
    Byte = {"l", "o", "s"}
    Zero = zero
    MaxCommLen = 3
    Comm <- MCComm
    Programs <- MCPrograms
    CommandLines <- MCCommandLines
    MaxFilters = 2
    RingSize = 1
    MaxEvents = 1
INVARIANT CommExact
CHECK_DEADLOCK FALSE
