SPECIFICATION FSpec
CONSTANTS
    p1 = p1
    p2 = p2
    Procs = {p1, p2}
    NoProc = NoProc
    initproc = p1
    INUMS = 3
    NOFILE = 2
    Names = {"a", "b"}
    Programs <- SafePrograms
CHECK_DEADLOCK FALSE
INVARIANT FreedWithLastRef
