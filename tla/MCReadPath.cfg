\* Four files in batches of two: two full batches, one and a tail, or none; the
\* channel holds one item; two commits; the client reads as long as it is there.
CONSTANTS
    Files = {f1, f2, f3, f4}
    FILE_BATCH_SIZE = 2
    STREAM_CHANNEL_CAPACITY = 1
    MaxVersions = 2
SPECIFICATION ReaderFairSpec
INVARIANTS
    IInv
    SnapshotOnly
    CleanEndIsComplete
    StreamShape
    ReadsAreFresh
PROPERTIES
    TaskEndsWithoutClient
    ReadEnds
