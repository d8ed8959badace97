SPECIFICATION Spec
CONSTANTS
    Procs = {p1, p2}
    Urls = {u1, u2}
    Window = 1
    MaxId = 3
    MaxTime = 1
    Faults = {"busy"}
    NoRow = NoRow
INVARIANTS TypeOK ShownIsDeleted UrlsAreUnique DeletedOnce ColumnIsThere
CHECK_DEADLOCK FALSE
VIEW WithoutOutput
SYMMETRY Symmetry
