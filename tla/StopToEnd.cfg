\* One element, a delay in its queue, an animation outside it, and a stop to the end.
SPECIFICATION MCSpec
CONSTANTS
    e1 = e1  e2 = e2
    Parts = {"effects"}
    Boxes = {1, 2}
    Spares = {3, 4}
    Pages <- MCPages
    Does <- MCDoes
    Nodes = {1, 2, 3, 4, 5}
    Class <- MCClass
    Trees <- MCTrees
    Selectors <- MCSelectors
    Contexts = {0, 2}
    MaxQueries = 2
    Elems = {e1}
    MaxItems = 3
    Modes = {"long", "unqueued", "delay"}
    Reactions = {"none"}
    Careful = FALSE
INVARIANTS QueueMoves
