\* Three sets nested up to three deep, key paths listed literally.
CONSTANTS
    NSets = 3
    Leaves = {e1}
    Keys = {k1, k2}
    Forms <- LiteralForms
    MaxErrs = 2
    MaxAdds = 4
    MaxFlattens = 1
    NilErr = NilErr
    Zero = Zero
SPECIFICATION Spec
INVARIANT TypeOK
INVARIANT FlattenKeepsPaths
\* Once every set is full and the callers stop flattening, nothing is left to do.
CHECK_DEADLOCK FALSE
