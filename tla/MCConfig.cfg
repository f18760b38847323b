\* Every initialiser in every order, whitelists of up to two entries.
CONSTANTS
    HexAddrs = {h1}
    JunkAddrs = {j1}
    MaxList = 2
SPECIFICATION Spec
INVARIANT TypeOK
INVARIANT WhitelistAdmitsConfigured
\* Startup ends once every initialiser has run.
CHECK_DEADLOCK FALSE
