\* The docstring of the session lock, read over the deployed processes.
SPECIFICATION MCSpec
CONSTANTS
    w1 = w1  w2 = w2
    m1 = m1  m2 = m2  m3 = m3
    s1 = s1  s2 = s2
    Workers = {w1, w2}
    Messages = {m1, m2, m3}
    Sessions = {s1, s2}
    NumStreams = 1
    SessionOf <- TwoSessions
    StreamOf <- OneStream
    Blank = {}
    MaxConcurrency = 1
    ReadCount = 2
    MaxHalts = 0
    None = None
INVARIANT
    SerialAcrossProcesses
\* Every message may be settled while the loop blocks in XREADGROUP.
CHECK_DEADLOCK FALSE
