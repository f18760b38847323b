\* Two events with every header kind: a rejected token, no publisher, a known
\* and an unknown publisher key; one instance under two ids.
CONSTANTS
    Ids = {"id1", "id2"}
    Insts = {a}
    NoInst = NoInst
    None = None
    Events = {e1, e2}
    Types = {"T1"}
    AnyType = "ANY"
    Strategies <- MCStrategies
    Tokens = {"Valid", "OtherProject"}
    PubIds = {"", "p1", "p2"}
    KnownPubs = {"p1"}
SPECIFICATION Spec
INVARIANT TypeOK
INVARIANT ResultPerHandler

PROPERTY NoSuccessAfterDelete
PROPERTY EventuallyAnswered
PROPERTY LifecycleRefined
