CONSTANTS
    N = 3
    k1 = k1
    Keys = {k1}
    NoopKey = NoopKey
    Cmd = Cmd
    Noop = Noop
    None = None
    Scenarios <- ScCycleNoops
    Pausable = TRUE
SPECIFICATION Spec
INVARIANT TypeOK ExecOrder
PROPERTY AllExecuted
CHECK_DEADLOCK FALSE
