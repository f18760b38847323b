CONSTANTS
    Ids = {"id1", "id2"}
    Insts = {a, b, c}
    NoInst = NoInst
INIT RegInit
NEXT RegNext
INVARIANT NoOrphanedInstance
