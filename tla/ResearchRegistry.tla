-------------------------- MODULE ResearchRegistry --------------------------
(***************************************************************************)
(* research: the registry of experiments, configs and lineage, the run     *)
(* recorder, the planner and the recorder of evaluation results, over      *)
(* their in-memory stores.                                                 *)
(*                                                                         *)
(* A status or a result set is loaded, changed and saved back: researchers *)
(* interleave between the load and the save, and only the store's save     *)
(* stands between a stale copy and what was reviewed.  The checks that     *)
(* read stores which only grow are one step with their save.  All optional *)
(* stores are there.                                                       *)
(*                                                                         *)
(* Texts, notes of runs and created_at are left out (a record's id and     *)
(* content stand for it; a config's digest is its payload), and the tuples *)
(* of a result set are sets: their order is never read.                    *)
(***************************************************************************)
EXTENDS Integers, FiniteSets

CONSTANTS NoRecord,           \* no call, no reference
          Researchers,        \* callers
          ClockTimes,         \* what now() may answer
          ExperimentInputs, ManifestInputs, ResultInputs,   \* records to save
          ConfigInputs, ReplayPlanInputs, EvaluationPlanInputs, ArtifactInputs,
          BundleInputs,       \* [id, config_ids] to compose
          BundleRecordInputs, \* ConfigBundles that callers made themselves
          LineageInputs, ObservationInputs, AssessmentInputs

VARIABLES once,               \* the stores that never replace a record
          experiments,        \* InMemoryExperimentDefinitionStore
          runs,               \* InMemoryResearchRunManifestStore
          results,            \* InMemoryEvaluationResultStore
          calls               \* researcher -> the copy it is about to save

researchVars == <<once, experiments, runs, results, calls>>

OnceStores == {"configs", "bundles", "replay_plans", "evaluation_plans", "artifacts", "lineage"}

Known(S, id) == \E x \in S : x.id = id
Get(S, id) == CHOOSE x \in S : x.id = id
Replaced(S, x) == {y \in S : y.id # x.id} \cup {x}

-----------------------------------------------------------------------------
(* Validators of the records. *)

ValidWindow(w) == w.start_at < w.end_at

ValidDatasetSnapshot(d) == d.start_at < d.end_at

ValidManifest(m) ==
    /\ ValidDatasetSnapshot(m.dataset)
    /\ m.temporal_windows # {} /\ \A w \in m.temporal_windows : ValidWindow(w)

ValidReplayPlan(p) ==
    /\ p.temporal_windows # {} /\ \A w \in p.temporal_windows : ValidWindow(w)
    /\ p.data_source_kind = "DATASET_SNAPSHOT" => p.dataset_id # NoRecord

(* At least one metric is primary, and there is a cost scenario. *)
ValidEvaluationPlan(p) ==
    /\ p.primary_metrics # {} /\ p.primary_metrics \subseteq p.metrics
    /\ p.cost_scenarios # {}

ValidLineage(r) ==
    /\ r.config_ids # {}
    /\ r.parent_run_id # r.run_id
    /\ r.kind = "ROOT" => r.parent_run_id = NoRecord

UniqueIds(S) == \A x, y \in S : x.id = y.id => x = y

ValidBundle(b) ==
    b.entries # {} /\ \A e, f \in b.entries : e.config_id = f.config_id => e = f

BelongsTo(x, r) == x.run_id = r.run_id /\ x.evaluation_plan_id = r.evaluation_plan_id

(* EvaluationResultSet. *)
ValidObservations(r) == UniqueIds(r.observations) /\ \A o \in r.observations : BelongsTo(o, r)
ValidAssessments(r) == UniqueIds(r.assessments) /\ \A a \in r.assessments : BelongsTo(a, r)
ValidResultSet(r) == ValidObservations(r) /\ ValidAssessments(r)

(* The fields of a result set. *)
ASSUME ResultFieldsAssumption ==
    \A r \in ResultInputs :
        DOMAIN r = {"id", "run_id", "evaluation_plan_id", "status", "updated_at",
                    "observations", "assessments", "artifact_ids", "notes"}

-----------------------------------------------------------------------------
(* Stores whose records are written once: the same record again changes    *)
(* nothing, another under its id is refused.                               *)
SaveOnce(name, x) ==
    /\ ~Known(once[name], x.id)
    /\ once' = [once EXCEPT ![name] = @ \cup {x}]
    /\ UNCHANGED <<experiments, runs, results, calls>>

RegisterConfigSnapshot == \E x \in ConfigInputs : SaveOnce("configs", x)

(* A bundle is saved as its caller made it, whatever configs are stored.   *)
RegisterConfigBundle == \E b \in BundleRecordInputs : ValidBundle(b) /\ SaveOnce("bundles", b)

(* compose_config_bundle: the entries are those of the stored snapshots.   *)
BundleEntries(ids) ==
    {[config_id |-> c.id, kind |-> c.kind, sha256 |-> c.sha256] :
        c \in {c \in once["configs"] : c.id \in ids}}
ComposeConfigBundle ==
    \E b \in BundleInputs :
        /\ b.config_ids # {} /\ \A i \in b.config_ids : Known(once["configs"], i)
        /\ SaveOnce("bundles", [id |-> b.id, entries |-> BundleEntries(b.config_ids)])

(* validate_plan_against_manifest. *)
PlanFitsManifest(p) ==
    /\ Known(runs, p.run_id)
    /\ LET d == Get(runs, p.run_id).dataset
       IN  /\ p.data_source_kind = "DATASET_SNAPSHOT" => p.dataset_id = d.id
           /\ \A w \in p.temporal_windows : d.start_at <= w.start_at /\ w.end_at <= d.end_at

CreateReplayPlan ==
    \E p \in ReplayPlanInputs :
        ValidReplayPlan(p) /\ PlanFitsManifest(p) /\ SaveOnce("replay_plans", p)

CreateEvaluationPlan ==
    \E p \in EvaluationPlanInputs : ValidEvaluationPlan(p) /\ SaveOnce("evaluation_plans", p)

RecordArtifact == \E a \in ArtifactInputs : SaveOnce("artifacts", a)

(* validate_lineage_references. *)
LineageReferences(r) ==
    /\ Known(experiments, r.experiment_id)
    /\ \A c \in r.config_ids : Known(once["configs"], c)
    /\ r.config_bundle_id # NoRecord => Known(once["bundles"], r.config_bundle_id)
    /\ Known(runs, r.run_id)
    /\ r.replay_plan_id # NoRecord => Known(once["replay_plans"], r.replay_plan_id)
    /\ r.evaluation_plan_id # NoRecord => Known(once["evaluation_plans"], r.evaluation_plan_id)

RegisterLineage ==
    \E r \in LineageInputs :
        ValidLineage(r) /\ LineageReferences(r) /\ SaveOnce("lineage", r)

-----------------------------------------------------------------------------
(* Experiments and runs. *)

FinalExperiment == {"ARCHIVED", "INVALIDATED"}
ExperimentTransition(from, to) ==
    \/ from = to
    \/ /\ from \notin FinalExperiment
       /\ from = "COMPLETED" => to \in FinalExperiment

AcceptsExperiment(old, new) ==
    /\ old.parent = new.parent /\ old.updated_at <= new.updated_at
    /\ ExperimentTransition(old.status, new.status)
    /\ old.status \in FinalExperiment => new = old

RegisterExperiment ==
    \E x \in ExperimentInputs :
        /\ Known(experiments, x.id) => AcceptsExperiment(Get(experiments, x.id), x)
        /\ experiments' = Replaced(experiments, x)
        /\ UNCHANGED <<once, runs, results, calls>>

TerminalRun == {"COMPLETED", "FAILED", "INVALIDATED"}

(* InMemoryResearchRunManifestStore.save. *)
AcceptsManifest(m) ==
    Known(runs, m.id) =>
        LET old == Get(runs, m.id)
        IN  /\ old.updated_at <= m.updated_at
            /\ old.status \in TerminalRun => m.status \in TerminalRun

CreateManifest ==
    \E m \in ManifestInputs :
        /\ ValidManifest(m) /\ AcceptsManifest(m)
        /\ runs' = Replaced(runs, m)
        /\ UNCHANGED <<once, experiments, results, calls>>

Begin(c, name, x) ==
    /\ calls[c] = NoRecord
    /\ calls' = [calls EXCEPT ![c] = [store |-> name, record |-> x]]
    /\ UNCHANGED <<once, experiments, runs, results>>

(* LocalResearchRunRecorder._update_status, up to the save. *)
UpdateRun(c) ==
    \E m \in runs, now \in ClockTimes, status \in {"RUNNING"} \cup TerminalRun :
        Begin(c, "runs", [m EXCEPT !.status = status, !.updated_at = now])

SaveRun(c) ==
    /\ calls[c] # NoRecord /\ (calls[c] # NoRecord => calls[c].store = "runs")
    /\ LET m == calls[c].record
       IN  runs' = IF AcceptsManifest(m) THEN Replaced(runs, m) ELSE runs
    /\ calls' = [calls EXCEPT ![c] = NoRecord]
    /\ UNCHANGED <<once, experiments, results>>

-----------------------------------------------------------------------------
(* Evaluation results. *)

ResultTransition(from, to) ==
    \/ from = to
    \/ /\ from # "INVALIDATED"
       /\ from = "REVIEWED" => to = "INVALIDATED"
       /\ to = "REVIEWED" => from = "RECORDED"
       /\ to # "DRAFT"

SamePayload(r, s) ==
    /\ BelongsTo(r, s)
    /\ r.observations = s.observations /\ r.assessments = s.assessments
    /\ r.artifact_ids = s.artifact_ids

\* Mutant: the payload of a reviewed set is not compared when it is invalidated.
StatusesOnly(old, new) ==
    old.status \in {"REVIEWED", "INVALIDATED"} /\ new.status = old.status => new = old

(* _validate_terminal_content_immutability. *)
TerminalContentImmutable(old, new) ==
    /\ old.status = "INVALIDATED" => new = old
    /\ old.status = "REVIEWED" =>
         /\ new.status = "REVIEWED" => new = old
         /\ new.status = "INVALIDATED" => SamePayload(old, new)

(* InMemoryEvaluationResultStore.save. *)
AcceptsResultSet(r) ==
    /\ ValidResultSet(r)
    /\ Known(results, r.id) =>
         LET old == Get(results, r.id)
         IN  /\ BelongsTo(r, old) /\ old.updated_at <= r.updated_at
             /\ ResultTransition(old.status, r.status)
             /\ TerminalContentImmutable(old, r)

CreateResultSet ==
    \E r \in ResultInputs :
        /\ AcceptsResultSet(r)
        /\ results' = Replaced(results, r)
        /\ UNCHANGED <<once, experiments, runs, calls>>

Mutable(r) == r.status \notin {"REVIEWED", "INVALIDATED"}
EvaluationPlanOf(x) == Get(once["evaluation_plans"], x.evaluation_plan_id)
PlanKnown(x) == Known(once["evaluation_plans"], x.evaluation_plan_id)

ObservationDeclared(o) ==
    /\ PlanKnown(o)
    /\ o.metric_id \in EvaluationPlanOf(o).metrics
    /\ o.cost_scenario_id # NoRecord => o.cost_scenario_id \in EvaluationPlanOf(o).cost_scenarios

AssessmentDeclared(a) ==
    /\ PlanKnown(a)
    /\ EvaluationPlanOf(a).expected_outcome_ids # {} => a.setup_id \in EvaluationPlanOf(a).expected_outcome_ids

RecordObservation(c) ==
    \E r \in results, o \in ObservationInputs, now \in ClockTimes :
        /\ Mutable(r) /\ BelongsTo(o, r) /\ ~Known(r.observations, o.id)
        /\ ObservationDeclared(o)
        /\ Begin(c, "results", [r EXCEPT !.observations = @ \cup {o}, !.updated_at = now])

RecordAssessment(c) ==
    \E r \in results, a \in AssessmentInputs, now \in ClockTimes :
        /\ Mutable(r) /\ BelongsTo(a, r) /\ ~Known(r.assessments, a.id)
        /\ AssessmentDeclared(a)
        /\ Begin(c, "results", [r EXCEPT !.assessments = @ \cup {a}, !.updated_at = now])

AttachArtifact(c) ==
    \E r \in results, a \in once["artifacts"], now \in ClockTimes :
        /\ Mutable(r)
        /\ Begin(c, "results", [r EXCEPT !.artifact_ids = @ \cup {a.id}, !.updated_at = now])

(* mark_recorded, mark_reviewed and invalidate, whose reason goes to notes. *)
UpdateResultStatus(c) ==
    \E r \in results, now \in ClockTimes, to \in {"RECORDED", "REVIEWED", "INVALIDATED"} :
        /\ ResultTransition(r.status, to)
        /\ Begin(c, "results", [r EXCEPT !.status = to, !.updated_at = now,
                                         !.notes = IF to = "INVALIDATED" THEN @ + 1 ELSE @])

(* The save of the copy: refused by the store, it changes nothing. *)
SaveResultSet(c) ==
    /\ calls[c] # NoRecord /\ (calls[c] # NoRecord => calls[c].store = "results")
    /\ LET r == calls[c].record
       IN  results' = IF AcceptsResultSet(r) THEN Replaced(results, r) ELSE results
    /\ calls' = [calls EXCEPT ![c] = NoRecord]
    /\ UNCHANGED <<once, experiments, runs>>

-----------------------------------------------------------------------------
ResearchInit ==
    /\ once = [name \in OnceStores |-> {}]
    /\ experiments = {} /\ runs = {} /\ results = {}
    /\ calls = [c \in Researchers |-> NoRecord]

OnceNext ==
    \/ RegisterConfigSnapshot \/ RegisterConfigBundle \/ ComposeConfigBundle
    \/ CreateReplayPlan \/ CreateEvaluationPlan
    \/ RecordArtifact \/ RegisterLineage

RunsNext ==
    \/ CreateManifest
    \/ \E c \in Researchers : UpdateRun(c) \/ SaveRun(c)

ResultsNext ==
    \/ CreateResultSet
    \/ \E c \in Researchers :
         \/ RecordObservation(c) \/ RecordAssessment(c) \/ AttachArtifact(c)
         \/ UpdateResultStatus(c) \/ SaveResultSet(c)

ResearchNext == OnceNext \/ RegisterExperiment \/ RunsNext \/ ResultsNext

ResearchSpec == ResearchInit /\ [][ResearchNext]_researchVars

-----------------------------------------------------------------------------
(* What was concluded stays: a reviewed result set keeps its observations, *)
(* assessments and artifacts for good and can only be invalidated, an      *)
(* invalidated one does not change at all, an archived or invalidated      *)
(* experiment neither, and a finished run never runs again, however many   *)
(* researchers save copies they loaded before (in_memory.py 53-72, 94-109, *)
(* 369-386).                                                               *)
ConclusionsKept ==
    /\ \A r \in results : ~Mutable(r) =>
         \E s \in results' : /\ s.id = r.id /\ SamePayload(r, s) /\ ~Mutable(s)
                             /\ r.status = "INVALIDATED" => s = r
    /\ \A x \in experiments : x.status \in FinalExperiment => x \in experiments'
    /\ \A m \in runs : m.status \in TerminalRun =>
         \E n \in runs' : n.id = m.id /\ n.status \in TerminalRun
    /\ \A name \in OnceStores : once[name] \subseteq once'[name]

(* A bundle was composed of configs as they are stored, or its caller made *)
(* it and only its own validator has seen it.                              *)
BundleFounded(b) ==
    \/ b \in BundleRecordInputs /\ ValidBundle(b)
    \/ \A e \in b.entries : \E c \in once["configs"] :
          [config_id |-> c.id, kind |-> c.kind, sha256 |-> c.sha256] = e

(* What a lineage record names is there; a bundle not made by its caller   *)
(* holds the configs as they are stored; and what was recorded in a result *)
(* set after it was created is declared in its evaluation plan             *)
(* (registry.py 71-185, local.py 325-350).                                 *)
ReferencesResolve ==
    /\ \A r \in once["lineage"] : LineageReferences(r)
    /\ \A b \in once["bundles"] : BundleFounded(b)
    /\ \A r \in results :
         /\ ValidResultSet(r)
         /\ \A o \in r.observations : ObservationDeclared(o)
              \/ \E x \in ResultInputs : x.id = r.id /\ o \in x.observations
         /\ \A i \in r.artifact_ids : Known(once["artifacts"], i)
              \/ \E x \in ResultInputs : x.id = r.id /\ i \in x.artifact_ids

(* Both, of every step of the research components. *)
ResearchRecordHolds == [][ConclusionsKept /\ ReferencesResolve']_researchVars
=============================================================================
