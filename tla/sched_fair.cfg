SPECIFICATION FairSpec
CONSTANTS
    t1 = t1
    t2 = t2
    t3 = t3
    Task <- ThreeTasks
    NoTask = NoTask
    nr_cpus = 2
    cpu_dom <- OneBigOneLittle
    classify_mode = 2
    big_slice_thresh = 0
    U64 = 32
    Comm <- Comms
    ByComm <- CommRules
    Masks <- AnyCpuOrLittle
    AffinityChanges = TRUE
    strict_domains = FALSE
    Deltas = {4}
    RemoteDeltas = {4}
    Tracked = {}
    StatBound = 1
PROPERTIES
    RunnableRuns
