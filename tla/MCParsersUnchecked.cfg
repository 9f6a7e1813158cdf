SPECIFICATION Spec
CONSTANTS
    Unchecked = {"liquivision_lynx"}
    SurfaceCount = 3
    VyperMixes = 2
    NitekqMixes = 1
    OstcMixes = 6
    StreamMixes = 2
    PredatorMixes = 4
    IdiveMixes = 2
    IdiveTanks = 1
    SymbiosGases = 1
    SymbiosTanks = 1
    ExcursionGases = 1
    FreedomGases = 3
    EonMaxGases = 2
INVARIANT ReadsInsideDive
