\* The documentation of respondStream, where nothing fails.
SPECIFICATION FairSpec
CONSTANTS
    m1 = m1  m2 = m2  m3 = m3
    s1 = s1  s2 = s2
    Messages = {m1, m2, m3}
    Sessions = {s1, s2}
    SessionOf <- Chats
    MaxFaults = 0
    MaxRestarts = 0
    None = None
INVARIANT
    StreamIsOwn
\* Everything may have been answered.
CHECK_DEADLOCK FALSE
