\* One failed call, one restart; users may wait or not.
SPECIFICATION FairSpec
CONSTANTS
    m1 = m1  m2 = m2  m3 = m3
    s1 = s1  s2 = s2
    Messages = {m1, m2, m3}
    Sessions = {s1, s2}
    SessionOf <- Chats
    MaxFaults = 1
    MaxRestarts = 1
    None = None
INVARIANTS
    OwnAnswer
    FinishOnce
PROPERTY
    EventuallyFinished
\* Everything may have been answered.
CHECK_DEADLOCK FALSE
