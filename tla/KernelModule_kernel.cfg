\* Two files, one of which can be in core beside the root, and two threads.
CONSTANTS
    a = a
    b = b
    Root = root
    Files = {f1, f2}
    Objs = {o1, o2}
    Threads = {t1, t2}
    MaxSlots = 2
    Marks = {a, b}
    Schemes <- MCSchemes
SPECIFICATION Spec
INVARIANTS CacheOutlivesInodes Unwound BeginsOnce SeenHolds QuietGet
SYMMETRY Symmetry
