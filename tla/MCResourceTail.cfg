\* Two uploads of parts of up to two bytes (two is over the limit) and an
\* extraction of up to two entries, all into one directory.
CONSTANTS
    Reqs = {r1, r2}
    Ids = {i1}
    Names = {f1}
    Bytes = {b1, b2}
    MaxLen = 2
    UploadLimit = 1
    NoReq = NoReq
    Extractor = Extractor
    ArchiveData <- MCArchiveData
    MaxEntries = 2
SPECIFICATION Spec
INVARIANT UploadedFileExact
\* Both requests return and the server waits for more.
CHECK_DEADLOCK FALSE
