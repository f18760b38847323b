\* The host ABI of one instance: every import, every error path, two calls.
CONSTANTS
    Rids <- MCRids
    Keys = {k1}
    Vals = {v1, v2}
    Absent = Absent
    None = None
    MaxCalls = 2
SPECIFICATION Spec
INVARIANT LogContextBounded
\* A guest may stop calling the host after its last call.
CHECK_DEADLOCK FALSE
