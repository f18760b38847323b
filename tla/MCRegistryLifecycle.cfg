\* Two instances over two ids, so ids collide and deletes interleave.
CONSTANTS
    Ids = {"id1", "id2"}
    Insts = {a, b}
    NoInst = NoInst
SPECIFICATION RegSpec
PROPERTY LifecycleRefined
