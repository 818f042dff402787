\* Two processes of one group and two messages of one session, or one process and
\* three messages of two sessions; one process may stop once.
SPECIFICATION MCSpec
CONSTANTS
    w1 = w1  w2 = w2
    m1 = m1  m2 = m2  m3 = m3
    s1 = s1  s2 = s2
    Workers = {w1, w2}
    Messages = {m1, m2, m3}
    Sessions = {s1, s2}
    NumStreams = 1
    SessionOf <- TwoSessions
    StreamOf <- OneStream
    Blank = {m2}
    MaxConcurrency = 2
    ReadCount = 2
    MaxHalts = 1
    None = None
INVARIANT
    RecordedOnce
PROPERTIES
    EventuallySettled
    TasksFinish
\* Every message may be settled while the loop blocks in XREADGROUP.
CHECK_DEADLOCK FALSE
