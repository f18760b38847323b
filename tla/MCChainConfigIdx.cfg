\* Both tables from every small configuration, every map iteration order.
CONSTANTS
    Names = {n1, n2}
    ChainIds = {0, 1}
    KeyNums = {1, 5}
    Urls = {u1, u2}
    IdWidth = 2
    MaxChains = 2
    NoChain = NoChain
    NoUrl = NoUrl
    Malformed = Malformed
    Invalid = Invalid
SPECIFICATION Spec
INVARIANT ChainIndexesAgree
\* Startup ends once both tables are built (or ChainConfig.Init panicked).
CHECK_DEADLOCK FALSE
