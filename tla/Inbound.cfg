\* One process that may stop once; two of four messages are blank.
SPECIFICATION Spec
CONSTANTS
    Process = w1
    m1 = m1  m2 = m2  m3 = m3  m4 = m4
    s1 = s1  s2 = s2
    Workers = {w1}
    Messages = {m1, m2, m3, m4}
    Sessions = {s1, s2}
    NumStreams = 1
    SessionOf <- ChatSession
    StreamOf <- OneStream
    Blank = {m3, m4}
    MaxConcurrency = 2
    ReadCount = 2
    MaxHalts = 1
    None = None
INVARIANTS
    SessionSerial
    PermitsAccounted
    InflightBounded
    AckedIsAnswered
    ArrivalOrder
SYMMETRY Interchangeable
PROPERTY
    ImplementsTurns
\* Every message may be settled while the loop blocks in XREADGROUP.
CHECK_DEADLOCK FALSE
