CONSTANTS
    TicksPerDay = 24
    MaxCallDepth = 6
    MaxInstructions = 260
    MaxCycles = 3
    MaxLoops = 25
    MaxNesting = 6
    Programs <- MCPrograms
SPECIFICATION LanguageSpec
INVARIANTS
    CompiledMatchesSource
    AcceptedResolves
    ValuesFitTypes
CHECK_DEADLOCK FALSE
