\* A list with any options whose callbacks change it; three deferreds wired and settled in any order.
SPECIFICATION MCSpec
CONSTANTS
    f = f  g = g
    Functions = {f, g}
    MaxEntries = 3
    MaxFires = 2
    EmptyInside = FALSE
    ThrowInside = TRUE
    MaxDeferreds = 3
    MaxHandlers = 1
    MaxCalls = 2
    FunctionsGiven <- MCSomeFunctions
    Throwing = TRUE
SYMMETRY MCSymmetry
INVARIANTS CalledOnce NoneSkipped NothingLeftQueued MemoryIsHeard EveryoneHears SettlesForItsCause
PROPERTIES KeepsPromise
