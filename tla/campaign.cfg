SPECIFICATION Spec
CONSTANTS
    N_CPUS = 8
    SMT_STRIDE = 4
    t1 = t1
    t2 = t2
    Texts = {t1, t2}
    Cut = Cut
    NoFile = NoFile
    MaxFiles = 2
    Missing = Missing
    NoFactor = Missing
    Damaged = Damaged
    Before <- MCBefore
    Scripts <- MCScripts
    Usual <- MCUsual
    Unusual <- MCUnusual
INVARIANTS
    TypeOK
    WinIsAdmissible
    WinIsAgainstFlat
    OkIsWhole
    PartitionReadBack
    PlanIsRun
    ListsArrive
    RanksAreRanks
    VerdictAgrees
    UpToDateIsComplete
CHECK_DEADLOCK FALSE
