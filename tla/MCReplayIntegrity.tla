------------------------- MODULE MCReplayIntegrity -------------------------
(* ReplayIntegrity with two batches whose records tie, one that is not       *)
(* VALIDATED, one whose records are out of order and one of another plan;    *)
(* and, on their own, the research components that make runs and plans.      *)
EXTENDS ReplayIntegrity, ResearchRegistry, TLC

Window == <<0, 4>>

MCPlanStore ==
    << [data_source_kind |-> "DATASET_SNAPSHOT", dataset_id |-> 1,
        temporal_windows |-> {Window}],
       [data_source_kind |-> "OTHER", dataset_id |-> 2, temporal_windows |-> {Window}] >>

MCDatasetInputs ==
    << [dataset_id |-> 1, instruments |-> {1}, start_at |-> 0, end_at |-> 4] >>

Record(id, time, kind, seq) ==
    [record_id |-> id, event_time |-> time, kind |-> kind, source_sequence |-> seq,
     instrument |-> 1]

Batch(id, plan, policy, records) ==
    [batch_id |-> id, replay_plan_id |-> plan, input_dataset_id |-> 1,
     temporal_window |-> Window, ordering_policy |-> policy, records |-> records,
     validation_status |-> "VALIDATED"]

ByTime == "EVENT_TIME_THEN_SEQUENCE"
ByKind == "EVENT_TIME_THEN_KIND_THEN_SEQUENCE"

MCBatchInputs ==
    { Batch(1, 1, ByTime, <<Record(1, 0, 2, 1), Record(2, 1, 1, 1)>>),
      Batch(2, 1, ByTime, <<Record(1, 1, 2, 1)>>),
      [Batch(3, 1, ByTime, << >>) EXCEPT !.validation_status = "PLANNED"],
      Batch(4, 1, ByKind, <<Record(1, 1, 2, 1), Record(2, 1, 1, 2)>>),
      Batch(5, 2, ByKind, <<Record(1, 1, 1, 2), Record(2, 1, 2, 1)>>) }

MCExpectations ==
    { [kinds |-> {1}, instruments |-> {1}, max_event_gap_seconds |-> 1],
      [kinds |-> {}, instruments |-> {}, max_event_gap_seconds |-> None] }

MCFingerprintLists == {<<2>>, <<2, 1>>}

CONSTANTS
    MaxArtifacts,     \* bound: timelines, reports and diffs
    MaxSaves          \* bound: verifications and what is made of them

Size(store) == Cardinality(DOMAIN store)
Artifacts == Size(timelines) + Size(reports) + Size(diffs)
Saves == Size(verifications) + Size(batchReports) + Size(readiness) + Size(manifests)

\* Nothing but timelines, cursors and audits so far.
Planning ==
    /\ fingerprints = Nothing /\ verifications = Nothing /\ losses = 0
    /\ verifying = NotVerifying /\ checking = NotChecking /\ readiness = Nothing

\* Timelines alone, or the cursor of a timeline, or audits of timelines.
Planned ==
    /\ Planning
    /\ timelines # Nothing => Size(batches) = 4
    /\ cursors # Nothing => Artifacts = 1 /\ 1 \in DOMAIN timelines
            /\ timelines[1].input_batch_ids \in {<<1>>, << >>}
            /\ timelines[1].ordering_policy = ByTime
    /\ Artifacts <= MaxArtifacts
    /\ cursors # Nothing \/ reports # Nothing =>
        /\ \A a \in Range(timelines) :
            /\ a.status = "BUILT" /\ a.created_at = 1
            /\ a.input_batch_ids \in {<<1>>, <<1, 2>>, <<5>>, << >>}
        /\ \A a \in Range(reports) : a.generated_at = 1

\* The chain from fingerprints to manifests over one timeline, empty or not,
\* and one report; or a fingerprint of a diff.  Cursors and fingerprints have
\* only the timelines in common, and a verification made at another time is a
\* conflict, after which its call can only fail.  A loss counts as two saves,
\* and is of a chain with one fingerprint, whose verifications and checks do
\* not overlap.
Chain ==
    /\ Size(batches) = 4 /\ cursors = Nothing /\ 2 \notin DOMAIN timelines
    /\ \A t \in DOMAIN timelines :
        /\ timelines[t].status = "BUILT" /\ timelines[t].replay_plan_id = 1
        /\ timelines[t].input_batch_ids \in {<<1>>, << >>}
        /\ timelines[t].ordering_policy = ByTime
    /\ \A t \in Range(timelines) :
            IF losses = 0 THEN t.created_at = 1 ELSE t.input_batch_ids = <<1>>
    /\ \A r \in Range(reports) : r.generated_at = 1 /\ r.expected.kinds = {}
    /\ 1 \in DOMAIN fingerprints => fingerprints[1].artifact_kind # "COVERAGE_REPORT"
    /\ 2 \in DOMAIN reports =>
        /\ diffs # Nothing /\ losses = 0 /\ Size(fingerprints) <= 1 /\ Saves = 0
        /\ checking = NotChecking /\ verifying = NotVerifying
    /\ 2 \in DOMAIN fingerprints =>
            1 \in DOMAIN fingerprints /\ fingerprints[2].generated_at = 1
    /\ 2 \in DOMAIN fingerprints =>
            verifying.report # 2 /\ \A v \in DOMAIN verifications : v[1] # 2
    /\ verifying # NotVerifying =>
        /\ fingerprints = Nothing => verifying.ids = << >>
        /\ verifying.plan = None => verifying.now = 1
        /\ verifying.plan # 2
    /\ checking # NotChecking => checking.plan = 1
    /\ checking # NotChecking /\ verifying # NotVerifying =>
            Len(verifying.items) = Len(verifying.ids)
    /\ \A v \in DOMAIN verifications : verifications[v].verified_at = 1
    /\ readiness # Nothing => verifying = NotVerifying /\ checking = NotChecking
    /\ Saves + 2 * losses <= MaxSaves
    /\ losses > 0 => /\ Size(fingerprints) <= 1
                     /\ checking = NotChecking \/ verifying = NotVerifying

Explored == Planned \/ Chain

ReplayStep ==
    \/ /\ Planning /\ cursors = Nothing
       /\ (TimelineNext /\ reports = Nothing) \/ AuditNext
       /\ UNCHANGED integrityVars
    \/ Planning /\ reports = Nothing /\ CursorNext /\ UNCHANGED integrityVars
    \/ /\ losses > 0 /\ timelines = Nothing
       /\ BuildTimeline(1, 1, <<1>>, Window, ByTime, "BUILT") /\ UNCHANGED integrityVars
    \/ Chain /\ manifests = Nothing /\ IntegrityNext

-----------------------------------------------------------------------------
\* One experiment, one run, one result set.
ExperimentRecord(parent, status, time) ==
    [id |-> 1, parent |-> parent, status |-> status, updated_at |-> time]
MCExperimentInputs ==
    {ExperimentRecord(NoRecord, s, t) : s \in {"PLANNED", "COMPLETED", "ARCHIVED"}, t \in {1, 2}}
        \cup {ExperimentRecord(2, "PLANNED", 2)}

Span(from, to) == [start_at |-> from, end_at |-> to]
RunManifest(dataset, time) ==
    [id |-> 1, status |-> "PLANNED", updated_at |-> time,
     dataset |-> [id |-> dataset, start_at |-> 0, end_at |-> 4], temporal_windows |-> {Span(0, 4)}]
FirstManifest == RunManifest(1, 1)
MCManifestInputs == {FirstManifest, RunManifest(2, 2)}

Config(i, payload) == [id |-> i, kind |-> "RISK", sha256 |-> payload]
MCConfigInputs == {Config(1, 1), Config(1, 2), Config(2, 1)}
MCBundleInputs == {[id |-> 1, config_ids |-> {1, 2}], [id |-> 1, config_ids |-> {1}]}
\* A bundle of a config that is never stored; one that names a config twice.
MCBundleRecordInputs ==
    {[id |-> 1, entries |-> {[config_id |-> 1, kind |-> "RISK", sha256 |-> 3]}],
     [id |-> 1, entries |-> {[config_id |-> 1, kind |-> "RISK", sha256 |-> s] : s \in {1, 2}}]}

ReplayPlanOf(i, dataset, window) ==
    [id |-> i, run_id |-> 1, data_source_kind |-> "DATASET_SNAPSHOT", dataset_id |-> dataset,
     temporal_windows |-> {window}]
MCReplayPlanInputs ==
    {ReplayPlanOf(1, 1, Span(0, 4)), ReplayPlanOf(2, 2, Span(0, 4)), ReplayPlanOf(2, 1, Span(2, 5))}
MCEvaluationPlanInputs ==
    {[id |-> 1, run_id |-> 1, metrics |-> {1}, primary_metrics |-> {1}, cost_scenarios |-> {1},
      expected_outcome_ids |-> {1}]}
MCArtifactInputs == {[id |-> 1, run_id |-> 1]}

Lineage(i, bundle, replay) ==
    [id |-> i, kind |-> "ROOT", parent_run_id |-> NoRecord, run_id |-> 1, experiment_id |-> 1,
     config_ids |-> {1}, config_bundle_id |-> bundle, replay_plan_id |-> replay,
     evaluation_plan_id |-> 1]
MCLineageInputs == {Lineage(1, 1, NoRecord), Lineage(1, NoRecord, 1), Lineage(2, NoRecord, 2)}

Observation(i, metric) ==
    [id |-> i, run_id |-> 1, evaluation_plan_id |-> 1, metric_id |-> metric, cost_scenario_id |-> 1]
MCObservationInputs == {Observation(1, 1), Observation(2, 9)}
Assessment(i, setup) == [id |-> i, run_id |-> 1, evaluation_plan_id |-> 1, setup_id |-> setup]
MCAssessmentInputs == {Assessment(1, 1), Assessment(2, 9)}
MCResultInputs ==
    {[id |-> 1, run_id |-> 1, evaluation_plan_id |-> 1, status |-> "DRAFT", updated_at |-> 1,
      observations |-> {Observation(3, 9)}, assessments |-> {}, artifact_ids |-> {}, notes |-> 0]}

ASSUME ResearchInputsAssumption == \A r \in MCResultInputs : ValidResultSet(r)

ResearcherSymmetry == Permutations(Researchers)

\* Bounds: runs change while nothing else is there, the experiment before the
\* registry fills up, and results over one evaluation plan and one artifact.
NothingOnce == \A name \in OnceStores : once[name] = {}
NoCalls == \A c \in Researchers : calls[c] = NoRecord
ResearchStep ==
    \/ NothingOnce /\ experiments = {} /\ RunsNext
    \/ /\ NothingOnce /\ NoCalls /\ runs \subseteq {FirstManifest}
       /\ RegisterExperiment
    \/ /\ results = {} /\ NoCalls /\ runs \subseteq {FirstManifest}
       /\ \A x \in experiments : x.updated_at = 1
       /\ OnceNext
    \/ /\ experiments = {} /\ runs = {} /\ once["configs"] = {}
       /\ once["evaluation_plans"] # {}
       /\ ResultsNext

MCInit == Init /\ ResearchInit
MCNext ==
    \/ NothingOnce /\ runs = {} /\ experiments = {} /\ ReplayStep /\ UNCHANGED researchVars
    \/ datasets = {} /\ batches = Nothing /\ timelines = Nothing /\ ResearchStep /\ UNCHANGED vars

MCSpec == MCInit /\ [][MCNext]_<<vars, researchVars>>
=============================================================================
