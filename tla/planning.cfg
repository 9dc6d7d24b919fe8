\* Two batches that tie and the batches that do not fit them; one loss.
CONSTANTS
    None = None
    PlanStore <- MCPlanStore
    DatasetInputs <- MCDatasetInputs
    BatchInputs <- MCBatchInputs
    TimelineIds = {1, 2}
    MaxEvents = 2
    CursorIds = {1}
    ReportIds = {1, 2}
    DiffIds = {1}
    Expectations <- MCExpectations
    Callers = {1, 2}
    Times = {1, 2}
    FingerprintIds = {1, 2}
    FingerprintLists <- MCFingerprintLists
    BatchReportIds = {1, 2}
    ReadinessIds = {1}
    ManifestIds = {1}
    CoverageStore = TRUE
    MaxLosses = 1
    MaxArtifacts = 4
    MaxSaves = 5
    NoRecord = NoRecord
    Researchers = {r1, r2}
    ClockTimes = {1, 2}
    ExperimentInputs <- MCExperimentInputs
    ManifestInputs <- MCManifestInputs
    ResultInputs <- MCResultInputs
    ConfigInputs <- MCConfigInputs
    ReplayPlanInputs <- MCReplayPlanInputs
    EvaluationPlanInputs <- MCEvaluationPlanInputs
    ArtifactInputs <- MCArtifactInputs
    BundleInputs <- MCBundleInputs
    BundleRecordInputs <- MCBundleRecordInputs
    LineageInputs <- MCLineageInputs
    ObservationInputs <- MCObservationInputs
    AssessmentInputs <- MCAssessmentInputs
SPECIFICATION MCSpec
CONSTRAINT Explored
INVARIANTS
    TimelinesDeterministic
    PlannedIsVerified
    ReadinessConstructible
PROPERTIES
    CursorForward
    ResearchRecordHolds
SYMMETRY ResearcherSymmetry
\* A full store is the end.
CHECK_DEADLOCK FALSE
