SPECIFICATION Spec
CONSTANTS
    Procs = {p1, p2}
    Names = {a, b}
    EmptyName = Empty
    Values = {v}
    Levels = {"INFO"}
    Faults = {}
    NoName = NoName
    NullHost = NullHost
    FreedHost = FreedHost
    NoConfig = NoConfig
    Absent = Absent
    Torn = Torn
INVARIANT AddedHostsAreStored
