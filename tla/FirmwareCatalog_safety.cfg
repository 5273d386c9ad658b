SPECIFICATION Spec
CONSTANTS
    h = h
    r1 = r1
    r2 = r2
    v1 = v1
    v2 = v2
    i1 = i1
    i2 = i2
    p1 = p1
    p2 = p2
    Codes = {h}
    Revisions = {r1, r2}
    CodeOf <- OneCode
    Versions = {v1, v2}
    RevisionOf <- OneEach
    Images = {i1, i2}
    None = None
    Publishers = {p1, p2}
    MaxUploads = 3
INVARIANT RowsAreRegistered
INVARIANT FileIsKept
INVARIANT DownloadIsTheRow
PROPERTY ImplementsCatalogue
CHECK_DEADLOCK FALSE
