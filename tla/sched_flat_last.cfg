SPECIFICATION Spec
CONSTANTS
    t1 = t1
    t2 = t2
    t3 = t3
    Task <- TwoTasks
    NoTask = NoTask
    nr_cpus = 2
    cpu_dom <- BothBig
    classify_mode = 0
    big_slice_thresh = 2
    U64 = 32
    Comm <- Comms
    ByComm <- CommRules
    Masks <- AnyCpu
    AffinityChanges = FALSE
    strict_domains = FALSE
    Deltas = {0}
    RemoteDeltas = {0}
    Tracked = {}
    StatBound = 1
SYMMETRY Symmetry
INVARIANTS
    QueuedIsNoticed
