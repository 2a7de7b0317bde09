\* Two candidates below elements that a nested query has looked into.
SPECIFICATION MCSpec
CONSTANTS
    e1 = e1  e2 = e2
    Parts = {"select"}
    Boxes = {1, 2}
    Spares = {3, 4}
    Pages <- MCPages
    Does <- MCDoes
    Nodes = {1, 2, 3, 4, 5, 6, 7}
    Class <- MCClass
    Trees <- NestedTrees
    Selectors <- NestedHas
    Contexts = {0}
    MaxQueries = 1
    Elems = {e1, e2}
    MaxItems = 3
    Modes = {"long", "zero", "empty", "unqueued", "delay"}
    Reactions = {"none", "animate", "stop"}
    Careful = TRUE
INVARIANTS NothingMeantIsMissed
\* The page may stop: nothing is left to do.
CHECK_DEADLOCK FALSE
