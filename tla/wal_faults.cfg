\* Every fault of the environment, and callers that seal empty segments.
CONSTANTS
    e1 = e1
    e2 = e2
    Events = {e1, e2}
    SplitEvents = {e2}
    MaxEvents = 2
    Faults = {"crash", "torn_line", "torn_newline", "append_io", "seal_io", "meta_io", "file_io"}
    SealEmpty = TRUE
    MaxWrites = 3
    MaxSegments = 3
SPECIFICATION Spec
INVARIANTS
    TypeOK
    AckedOnDisk
PROPERTY SealedImmutable
\* A WAL that refused to open, or has used up its writes, stops.
CHECK_DEADLOCK FALSE
