SPECIFICATION FairSpec
CONSTANTS
    nr_cpus_online = 2
    cpu_dom <- OneBigOneLittle
    EPP = {"performance", "power"}
    epp_big = "performance"
    epp_little = "power"
    Faults = {"open", "load", "attach"}
    Arms <- SomeArms
    NoArm = NoArm
    reps = 2
INVARIANTS
    TypeOK
    EppRestored
    LabelHolds
    EevdfAlone
    NothingLeft
PROPERTIES
    SessionEnds
    MachineReturned
