SPECIFICATION FairSpec
CONSTANTS
    Procs = {p1, p2}
    Names = {a, b}
    EmptyName = Empty
    Values = {v}
    Levels = {"INFO"}
    Faults = {"open", "write", "flush", "crash"}
    NoName = NoName
    NullHost = NullHost
    FreedHost = FreedHost
    NoConfig = NoConfig
    Absent = Absent
    Torn = Torn
VIEW WithoutHistory
INVARIANTS TypeOK DefaultIsAHost HostNamesAreUnique  TornHasAWriter
PROPERTIES TornHeals HangsOnlyOnACutSave
