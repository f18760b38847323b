CONSTANTS
    Ids = {"id1", "id2"}
    Insts = {a}
    NoInst = NoInst
    None = None
    Events = {e1}
    Types = {"T1"}
    AnyType = "ANY"
    Strategies <- MCStrategies
    Tokens = {"Empty", "Unparsable", "NonString", "BadProjectID", "OtherProject", "Valid"}
    PubIds = {"", "pubA", "pubX"}
    KnownPubs = {"pubA"}
SPECIFICATION Spec
INVARIANT PublisherMissReported
