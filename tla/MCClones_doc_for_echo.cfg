SPECIFICATION FairSpec
CONSTANTS
    Threads = {t0, t1, t2, t3}
    Root = t0
    Pipes = {p1, p2}
    Handles = {0, 1, 2, 3, 4, 5, 6, 7, 8, 9, 10, 11}
    NULL = null
    Programs <- MCPrograms
    Code <- MCCode
    Scripts <- ForEcho
    Capacity = 1
PROPERTY ForEnds
CHECK_DEADLOCK FALSE
