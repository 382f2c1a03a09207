SPECIFICATION FairSpec
CONSTANTS
    nr_cpus_online = 3
    cpu_dom <- OneBigTwoLittle
    EPP = {"performance", "balance", "power"}
    epp_big = "performance"
    epp_little = "power"
    Faults = {"open", "load", "attach"}
INVARIANTS
    TypeOK
    Restored
    PartitionHeld
PROPERTIES
    SignalsCaught
    ExitFollows
