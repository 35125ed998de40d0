CONSTANTS
    DIRSIZ = 2
    RADIX = 256
    Octets = {1, 2, 168, 192}
    Junk = {0, 255}
SPECIFICATION Spec
INVARIANT RequestNamesTarget
CHECK_DEADLOCK FALSE
