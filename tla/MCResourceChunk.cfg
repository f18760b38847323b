\* Two uploads of parts of up to two bytes, both under the limit, and an
\* extraction, all into one directory.
CONSTANTS
    Reqs = {r1, r2}
    Ids = {i1}
    Names = {f1}
    Bytes = {b1, b2}
    MaxLen = 2
    UploadLimit = 2
    NoReq = NoReq
    Extractor = Extractor
    ArchiveData <- MCArchiveData
    MaxEntries = 2
SPECIFICATION Spec
INVARIANT UploadedDataIsPrefix
\* Both requests return and the server waits for more.
CHECK_DEADLOCK FALSE
