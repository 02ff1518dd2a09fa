CONSTANTS
    N = 3
    k1 = k1
    Keys = {k1}
    NoopKey = NoopKey
    Cmd = Cmd
    Noop = Noop
    None = None
    Scenarios <- ScStale
    Pausable = FALSE
SPECIFICATION Spec
INVARIANT ExecOrder
CHECK_DEADLOCK FALSE
