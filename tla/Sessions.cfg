\* One session: two turns of one process, a posted message, two closes or expiries.
SPECIFICATION Spec
CONSTANTS
    t1 = t1
    t2 = t2
    r1 = r1
    p1 = p1
    p2 = p2
    a1 = a1
    a2 = a2
    None = None
    MaxEnds = 2
    Turns <- MCTurns
    Requests <- MCRequests
    Procs <- MCProcs
    Home <- Together
    Agents <- MCAgents
SYMMETRY Alike
INVARIANTS
    NothingLost
    HearsAll
    NothingReturns
CHECK_DEADLOCK FALSE
