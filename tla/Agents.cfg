\* Two agents, two requests at once, two instances of an agent.
SPECIFICATION Spec
CONSTANTS
    Agents = {a1, a2}
    Tasks = {t1, t2}
    MaxInstances = 2
    None = None
INVARIANTS
    SessionsCounted
    TableUsable
PROPERTY
    OnlyDrainingRefuses
SYMMETRY Interchangeable
