\* The log: crashes between disk effects, torn lines, failing seals and metadata saves.
\* The sidecars: two runs share the partition; any one call of the sidecars fails.
CONSTANTS
    e1 = e1
    e2 = e2
    Events = {e1, e2}
    SplitEvents = {}
    MaxEvents = 2
    Faults = {"crash", "torn_line", "seal_io", "meta_io", "file_io"}
    SealEmpty = FALSE
    MaxWrites = 4
    MaxSegments = 4
    r1 = r1
    r2 = r2
    c1 = c1
    c2 = c2
    Runs = {r1, r2}
    Consumers = {c1}
    Required = {c1}
    MaxRecords = 2
    MaxBatch = 2
    MaxFaults = 1
    SidecarFaults = {"reject", "relay_save", "commit", "checkpoint", "upsert", "cursor", "health"}
SPECIFICATION MCSpec
INVARIANTS
    WalInv
    OffsetsNeverReset
    AckedOffsetsUnique
    ReadsBack
    Recoverable
    PipelineTypeOK
    BrokerInWalOrder
    CheckpointCoversPrefix
    StoredWhereBrokerHasIt
    ResumeLosesNothing
    GcOnlyAfterCommit
PROPERTIES
    ImplementsEventJournal
    ProgressIsMonotonic
    AppendedIsCommitted
