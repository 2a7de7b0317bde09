\* Small pages of every kind; queries between moves; two elements and three animations.
SPECIFICATION MCSpec
CONSTANTS
    e1 = e1  e2 = e2
    Parts = {"dom", "select", "effects"}
    Boxes = {1, 2}
    Spares = {3, 4}
    Pages <- MCPages
    Does <- MCDoes
    Nodes = {1, 2, 3, 4, 5, 6, 7}
    Class <- MCClass
    Trees <- MCTrees
    Selectors <- MCSelectors
    Contexts = {0, 2}
    MaxQueries = 2
    Elems = {e1, e2}
    MaxItems = 3
    Modes = {"long", "zero", "empty", "unqueued", "delay"}
    Reactions = {"none", "animate", "stop"}
    Careful = TRUE
INVARIANTS CacheIsOwned ListenersMatch CalledOncePerEvent ScriptsRunOnce SelectsWhatIsMeant QueueMoves
\* The page may stop: nothing is left to do.
CHECK_DEADLOCK FALSE
