CONSTANTS
    N = 3
    Workload <- WorkloadOne
    k1 = k1
    Keys = {k1}
    NoopKey = NoopKey
    Cmd = Cmd
    Noop = Noop
    None = None
    RecoveryAt = {2}
    PrepareApi = FALSE
    RecLanes = 1
    MaxPrepares = 2
    Disconnectable = {}
SPECIFICATION Spec
INVARIANT Agreement
CHECK_DEADLOCK FALSE
