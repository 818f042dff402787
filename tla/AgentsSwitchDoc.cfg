\* The docstring of switch_runtime.
SPECIFICATION Spec
CONSTANTS
    Agents = {a1, a2}
    Tasks = {t1, t2}
    MaxInstances = 2
    None = None
INVARIANT
    NewRuntimeServes
