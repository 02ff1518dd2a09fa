CONSTANTS
    N = 3
    k1 = k1
    Keys = {k1}
    NoopKey = NoopKey
    Cmd = Cmd
    Noop = Noop
    None = None
    Scenarios <- ScStale
    Pausable = FALSE
SPECIFICATION Spec
PROPERTY AllExecuted
CHECK_DEADLOCK FALSE
