SPECIFICATION HeapSpec
CONSTANTS
    g = g
    u1 = u1
    f1 = f1
    k1 = k1
    k2 = k2
    f2 = f2
    s1 = s1
    c1 = c1
    NoObj = NoObj
    Main = Main
    Units = {g, u1}
    Global = g
    Funcs = {f1, f2}
    Codes = {k1, k2}
    Strs = {s1}
    Coros = {c1}
    Nested = {f2, k2}
    MaxDecoded = 2
    MaxRefs = 2
    GcLimit = 2
    VmBlocks = 0
    Sources = {"text", "bytes"}
    DelMay = {"raise"}
INVARIANTS TypeOK Accounting MarkExact HeapInv NoDangling ClosedEmptyOrWedged
PROPERTIES OnlyGarbageFinalized FinalizedBeforeFreed Wedged CollectionEnds
