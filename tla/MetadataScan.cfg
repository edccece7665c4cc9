SPECIFICATION LiveSpec
CONSTANTS
    Dirs = {1, 2, 3}
    Files = {4}
    Top = 1
    d2 = 2
    Dots <- MCDots
    a = a
    b = b
    Names = {a, b}
    None = None
    RootLists <- MCRootLists
    BatchSize = 2
INVARIANTS TypeOK ScanIsComplete AttributesOfAll
PROPERTY ScanEnds
CHECK_DEADLOCK FALSE
