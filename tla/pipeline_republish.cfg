\* One DB writer; the relay loses one checkpoint save.
CONSTANTS
    r1 = r1
    r2 = r2
    c1 = c1
    c2 = c2
    Runs = {r1}
    Consumers = {c1}
    Required = {c1}
    MaxRecords = 2
    MaxBatch = 2
    MaxFaults = 1
    SidecarFaults = {"relay_save"}
SPECIFICATION PipelineSpec
INVARIANT RecommitIsIdempotent
