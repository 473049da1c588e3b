SPECIFICATION Spec
CONSTANTS
    c1 = c1
    x1 = x1
    x2 = x2
    x3 = x3
    Coros = {c1}
    NoCoro = NoCoro
    Contexts = {x1, x2, x3}
    NStack = 7
    MaxStack = 2
    NParams = 1
INVARIANT TraceAccurate
