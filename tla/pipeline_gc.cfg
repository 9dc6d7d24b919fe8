\* Two required DB writers, no failing call.
CONSTANTS
    r1 = r1
    r2 = r2
    c1 = c1
    c2 = c2
    Runs = {r1}
    Consumers = {c1, c2}
    Required = {c1, c2}
    MaxRecords = 2
    MaxBatch = 2
    MaxFaults = 0
    SidecarFaults = {}
SPECIFICATION PipelineSpec
INVARIANT GcNeedsAllRequired
