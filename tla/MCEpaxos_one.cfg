CONSTANTS
    N = 3
    Workload <- WorkloadOne
    k1 = k1
    Keys = {k1}
    NoopKey = NoopKey
    Cmd = Cmd
    Noop = Noop
    None = None
    RecoveryAt = {2}
    PrepareApi = FALSE
    RecLanes = 1
    MaxPrepares = 1
    Disconnectable = {0}
SPECIFICATION Spec
INVARIANT Agreement TrackerCovers PreparingOwned
PROPERTY ConsensusRefined
CHECK_DEADLOCK FALSE
