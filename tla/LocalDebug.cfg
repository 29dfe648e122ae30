SPECIFICATION Spec
CONSTANTS
    Functions <- MCFunctions
    Files <- MCFiles
    BreakLines <- MCBreakLines
    StdlibLength = 1
    EntryPoint = 4
    MaxRequests = 5
    MaxPerCycle = 2
    SafetyCycleCap = 2
    MaxInstructions = 12
INVARIANTS RefsNameInstances
PROPERTIES StepSkipsNothing BreakpointsStop PauseStopsRun RunEnds
CHECK_DEADLOCK FALSE
