SPECIFICATION Spec
CONSTANTS
    N_PHYS_CORES = 4
    SMT_SIBLING_STRIDE = 4
    TURBO_BINS <- FourCores
    Args <- Commands
    Csvs <- SampleFiles
    NoCsv = NoCsv
    NoCell = NoCell
    Fits <- SomeFits
INVARIANTS
    TypeOK
    CapMet
    MarginalOrder
    SharedCostsMore
    FloorRaisesOptimum
    FitIsModel
