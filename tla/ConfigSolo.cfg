SPECIFICATION Spec
CONSTANTS
    Procs = {p1}
    Names = {a, b, c}
    EmptyName = Empty
    Values = {v, w}
    Levels = {"INFO", "DEBUG"}
    Faults = {}
    NoName = NoName
    NullHost = NullHost
    FreedHost = FreedHost
    NoConfig = NoConfig
    Absent = Absent
    Torn = Torn
INVARIANTS CopyIsCurrent AddedHostsAreStored
PROPERTY ImplementsRegister
