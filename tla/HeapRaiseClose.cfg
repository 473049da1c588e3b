SPECIFICATION Spec
CONSTANTS
    g = g
    u1 = u1
    f1 = f1
    k1 = k1
    s1 = s1
    NoObj = NoObj
    Main = Main
    Units = {g, u1}
    Global = g
    Funcs = {f1}
    Codes = {k1}
    Strs = {s1}
    Coros = {}
    Nested = {}
    MaxDecoded = 0
    MaxRefs = 2
    GcLimit = 4
    VmBlocks = 1
    Sources = {"text"}
    DelMay = {"raise"}
INVARIANT ClosedEmpty
