SPECIFICATION LoopSpec
CONSTANTS
    c1 = c1
    c2 = c2
    c3 = c3
    x1 = x1
    x2 = x2
    x3 = x3
    Coros = {c1, c2, c3}
    NoCoro = NoCoro
    Contexts = {x1, x2, x3}
    NStack = 4
    MaxStack = 1
    NParams = 0
INVARIANTS ContextsHeld CursorInPool NoneForgotten
PROPERTIES Implements OneTurnEach EveryOneRuns
