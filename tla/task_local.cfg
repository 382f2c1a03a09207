SPECIFICATION Spec
CONSTANTS
    classify_mode = 3
    big_slice_thresh = 2
    U64 = 64
    nr_cpus = 2
    cpu_dom <- OneBigOneLittle
    skew <- InStep
    Remote = FALSE
    Pinned = {TRUE, FALSE}
    NSEC_PER_MSEC = 4
    Elapse = {1, 6}
    MaxNow = 22
    MaxStints = 3
INVARIANTS
    TypeOK
    TimeAccounted
    MsTruncation
    LongRunnerPromoted
PROPERTIES
    NoPingPong
CHECK_DEADLOCK FALSE
