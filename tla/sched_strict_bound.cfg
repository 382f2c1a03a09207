SPECIFICATION Spec
CONSTANTS
    t1 = t1
    t2 = t2
    t3 = t3
    Task <- TwoTasks
    NoTask = NoTask
    nr_cpus = 2
    cpu_dom <- OneBigOneLittle
    classify_mode = 1
    big_slice_thresh = 2
    U64 = 32
    Comm <- Comms
    ByComm <- CommRules
    Masks <- AnyCpuOrBound
    AffinityChanges = FALSE
    strict_domains = TRUE
    Deltas = {0}
    RemoteDeltas = {0}
    Tracked = {}
    StatBound = 1
SYMMETRY Symmetry
INVARIANTS
    QueuedReachable
