CONSTANTS
    N = 3
    Workload <- WorkloadOne
    k1 = k1
    Keys = {k1}
    NoopKey = NoopKey
    Cmd = Cmd
    Noop = Noop
    None = None
    RecoveryAt = {2}
    PrepareApi = FALSE
    RecLanes = 2
    MaxPrepares = 1
    Disconnectable = {}
SPECIFICATION Spec
INVARIANT PrepareExclusive
CHECK_DEADLOCK FALSE
