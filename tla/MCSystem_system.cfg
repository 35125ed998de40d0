SPECIFICATION Spec
CONSTANTS
    p1 = p1
    p2 = p2
    NoProc = NoProc
    LINE = 4
    PIPELINE = 5
    TEXT = 5
INVARIANT ReferencesExact
INVARIANT NamespaceExact
INVARIANT NoLockCycle
INVARIANT DiskSound
INVARIANT PagesConserved
INVARIANT MemoryExact
INVARIANT HeapSound
INVARIANT FileContents
INVARIANT BlocksExact
INVARIANT LibraryCorrect
INVARIANT FiltersCorrect
INVARIANT ShellCorrect
INVARIANT ImageConsistent
INVARIANT UserMemoryChecked
INVARIANT TerminalCorrect
CHECK_DEADLOCK FALSE
