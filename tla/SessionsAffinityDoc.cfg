\* Session affinity as the requirements state it.
SPECIFICATION Spec
CONSTANTS
    t1 = t1
    t2 = t2
    r1 = r1
    p1 = p1
    p2 = p2
    a1 = a1
    a2 = a2
    None = None
    MaxEnds = 0
    Turns <- MCTurns
    Requests <- MCRequests
    Procs <- MCProcs
    Home <- Apart
    Agents <- MCAgents
CHECK_DEADLOCK FALSE
PROPERTY
    RoutedToLastServed
