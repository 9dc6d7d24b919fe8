-------------------------- MODULE ReplayIntegrity --------------------------
(***************************************************************************)
(* From stored artifacts to a replay run manifest:                          *)
(* LocalReplayArtifactFingerprinter, ...FingerprintVerifier,                *)
(* ...FingerprintBatchVerifier, LocalReplayReadinessChecker and             *)
(* LocalReplayRunPlanner.  The artifacts are those of ReplayPlanning.  The  *)
(* batch verifier and the readiness checker read stores that others write   *)
(* to between their reads: each of their calls is cut there, and a call of  *)
(* the batch verifier may die, leaving the verifications it has saved.      *)
(*                                                                          *)
(* A canonical payload is the artifact itself, its SHA-256 is left out: it  *)
(* is a function of the payload, and no two payloads that occur share one.  *)
(***************************************************************************)
EXTENDS ReplayPlanning

CONSTANTS
    FingerprintIds,  \* ids under which artifacts are fingerprinted
    FingerprintLists,\* lists of them that verify_fingerprints is called with
    BatchReportIds,  \* ids of verification batch reports
    ReadinessIds,    \* ids of readiness reports
    ManifestIds,     \* ids of run manifests
    CoverageStore,   \* whether the checker was given a coverage report store
    MaxLosses        \* bound: timelines lost by their store

ASSUME IdsAssumption == FingerprintIds \subseteq Int /\ BatchReportIds \subseteq Int

VARIABLES
    fingerprints,   \* InMemoryReplayArtifactFingerprintStore
    verifications,  \* ...VerificationStore, by batch report and fingerprint id
    batchReports,   \* ...VerificationBatchReportStore
    readiness,      \* InMemoryReplayReadinessReportStore
    manifests,      \* InMemoryReplayRunManifestStore
    verifying,      \* the call of the batch verifier in progress
    checking,       \* the call of the readiness checker in progress
    losses          \* timelines lost so far

integrityVars ==
    <<fingerprints, verifications, batchReports, readiness, manifests, verifying,
      checking, losses>>
vars == <<planningVars, integrityVars>>

-----------------------------------------------------------------------------
(* Fingerprints.                                                            *)

\* _load_artifact_data
StoreOf(kind) ==
    CASE kind = "TIMELINE" -> timelines
      [] kind = "COVERAGE_REPORT" -> reports
      [] kind = "COVERAGE_DIFF" -> diffs

\* The plan of an artifact; a diff across plans has none.
PlanOf(kind, a) ==
    IF kind # "COVERAGE_DIFF" THEN a.replay_plan_id
    ELSE IF a.baseline_replay_plan_id = a.candidate_replay_plan_id
         THEN a.baseline_replay_plan_id ELSE None

\* fingerprint_timeline, fingerprint_coverage_report, fingerprint_coverage_diff
FingerprintArtifact(f, kind, id) ==
    /\ id \in DOMAIN StoreOf(kind)
    /\ \E now \in Times :
        fingerprints' = Saved(fingerprints, f,
            [artifact_kind |-> kind, artifact_id |-> id,
             replay_plan_id |-> PlanOf(kind, StoreOf(kind)[id]),
             generated_at |-> now, payload |-> StoreOf(kind)[id]])
    /\ UNCHANGED <<planningVars, verifications, batchReports, readiness, manifests,
                   verifying, checking, losses>>

\* The order of (generated_at, id)
Earlier(store, i, j) ==
    Before(<<store[i].generated_at, i>>, <<store[j].generated_at, j>>)

\* The ids of a store that belong to a plan
OfPlan(store, plan) == {i \in DOMAIN store : store[i].replay_plan_id = plan}

\* list_for_replay_plan, in the order of (generated_at, fingerprint_id)
PlanFingerprints(plan) ==
    LET ids == OfPlan(fingerprints, plan)
    IN  CHOOSE list \in [1 .. Cardinality(ids) -> ids] :
            \A m, n \in DOMAIN list : m < n => Earlier(fingerprints, list[m], list[n])

-----------------------------------------------------------------------------
(* Verification.                                                            *)

\* The artifact that a fingerprint names, if its store has it.
ArtifactOf(f) ==
    LET store == StoreOf(fingerprints[f].artifact_kind)
    IN  {store[a] : a \in {fingerprints[f].artifact_id} \cap DOMAIN store}

\* Mutant: an artifact that is gone counts as unchanged.
VerdictLenient(f) ==
    IF f \notin DOMAIN fingerprints THEN "MISSING_FINGERPRINT"
    ELSE IF \A a \in ArtifactOf(f) : a = fingerprints[f].payload THEN "VALID"
    ELSE "MISMATCH"

\* verify_fingerprint: the status
Verdict(f) ==
    IF f \notin DOMAIN fingerprints THEN "MISSING_FINGERPRINT"
    ELSE IF ArtifactOf(f) = {} THEN "MISSING_ARTIFACT"
    ELSE IF ArtifactOf(f) = {fingerprints[f].payload} THEN "VALID"
    ELSE "MISMATCH"

\* _build_mismatch_issues: hash and payload differ together.
IssueCount(status) ==
    CASE status = "VALID" -> 0 [] status = "MISMATCH" -> 2 [] OTHER -> 1

\* ReplayArtifactFingerprintVerification; the artifact recomputed from is kept.
VerificationOf(f, now) ==
    [status |-> Verdict(f), verified_at |-> now,
     replay_plan_id |->
        IF f \in DOMAIN fingerprints THEN fingerprints[f].replay_plan_id ELSE None,
     recomputed |-> IF f \in DOMAIN fingerprints THEN ArtifactOf(f) ELSE {}]

\* The validators refuse a recomputed payload of another plan: the call raises.
Representable(f) ==
    Verdict(f) = "MISMATCH" /\ fingerprints[f].replay_plan_id # None =>
        \A a \in ArtifactOf(f) :
            PlanOf(fingerprints[f].artifact_kind, a) = fingerprints[f].replay_plan_id

\* verify_fingerprint called by itself, under the id a batch would give it.
VerifyFingerprint(b, f) ==
    /\ Representable(f)
    /\ \E now \in Times :
        verifications' = Saved(verifications, <<b, f>>, VerificationOf(f, now))
    /\ UNCHANGED <<planningVars, fingerprints, batchReports, readiness, manifests,
                   verifying, checking, losses>>

NotVerifying == [report |-> None]

\* verify_fingerprints for a list, verify_replay_plan for the plan's list
VerifyBatch(b, plan, ids) ==
    /\ verifying = NotVerifying
    /\ IsInjective(ids)
    /\ \E now \in Times :
        verifying' = [report |-> b, plan |-> plan, ids |-> ids, now |-> now,
                      items |-> << >>]
    /\ UNCHANGED <<planningVars, fingerprints, verifications, batchReports, readiness,
                   manifests, checking, losses>>

NextToVerify == verifying.ids[Len(verifying.items) + 1]

\* One verification of the batch; a conflicting verification left by an
\* earlier call, like an unrepresentable one, raises and ends the call.
VerifyNext ==
    /\ verifying # NotVerifying /\ Len(verifying.items) < Len(verifying.ids)
    /\ \E now \in Times :
        LET f == NextToVerify
            id == <<verifying.report, f>>
            v == VerificationOf(f, now)
            kept == id \in DOMAIN verifications => verifications[id] = v
        IN  /\ Representable(f) /\ kept
            /\ verifications' = Saved(verifications, id, v)
            /\ verifying' = [verifying EXCEPT !.items = Append(@,
                    [fingerprint_id |-> f, status |-> v.status,
                     replay_plan_id |-> v.replay_plan_id])]
    /\ UNCHANGED <<planningVars, fingerprints, batchReports, readiness, manifests,
                   checking, losses>>

\* _infer_replay_plan_id_from_items
PlanOfItems(items) ==
    LET plans == {items[i].replay_plan_id : i \in DOMAIN items}
    IN  IF Cardinality(plans) = 1 THEN CHOOSE p \in plans : TRUE ELSE None

\* The end of _build_report
FinishBatch ==
    /\ verifying # NotVerifying /\ Len(verifying.items) = Len(verifying.ids)
    /\ batchReports' = Saved(batchReports, verifying.report,
            [replay_plan_id |-> IF verifying.plan # None THEN verifying.plan
                                ELSE PlanOfItems(verifying.items),
             generated_at |-> verifying.now, items |-> verifying.items])
    /\ verifying' = NotVerifying
    /\ UNCHANGED <<planningVars, fingerprints, verifications, readiness, manifests,
                   checking, losses>>

\* A call of the batch verifier that raises or dies.
BatchFails ==
    /\ verifying # NotVerifying
    /\ verifying' = NotVerifying
    /\ UNCHANGED <<planningVars, fingerprints, verifications, batchReports, readiness,
                   manifests, checking, losses>>

\* _build_batch_summary
Total(r) == Len(r.items)
WithStatus(r, statuses) == {i \in DOMAIN r.items : r.items[i].status \in statuses}
AllValid(r) == Total(r) > 0 /\ Cardinality(WithStatus(r, {"VALID"})) = Total(r)
HasMismatches(r) == WithStatus(r, {"MISMATCH"}) # {}
HasMissing(r) == WithStatus(r, {"MISSING_FINGERPRINT", "MISSING_ARTIFACT"}) # {}
\* total_issues, the sum of these counts, is 0
NoIssues(r) == \A i \in DOMAIN r.items : IssueCount(r.items[i].status) = 0
Requested(r) == [i \in DOMAIN r.items |-> r.items[i].fingerprint_id]

-----------------------------------------------------------------------------
(* Readiness.                                                               *)

\* max by (generated_at, report_id)
LatestId(store, plan) ==
    LET ids == OfPlan(store, plan)
    IN  IF ids = {} THEN None
        ELSE CHOOSE r \in ids : \A s \in ids \ {r} : Earlier(store, s, r)

\* _collect_readiness_issues on the latest batch report
BatchIssues(count, batch) ==
    LET r == batchReports[batch]
        issue(condition, kind) == When(condition, Item(kind, batch, "ERROR"))
    IN  issue(HasMismatches(r), "BATCH_HAS_MISMATCHES")
        \cup issue(HasMissing(r), "BATCH_HAS_MISSING")
        \cup issue(~AllValid(r) /\ Total(r) > 0, "BATCH_NOT_ALL_VALID")
        \cup issue(Total(r) # count, "FINGERPRINT_COUNT_MISMATCH")

\* and on the latest coverage report
CoverageIssues(plan) ==
    LET latest == LatestId(reports, plan)
    IN  IF ~CoverageStore THEN {}
        ELSE IF latest = None THEN {Item("COVERAGE_REPORT_MISSING", None, "WARNING")}
        ELSE When(CountOf(reports[latest].by_severity, "ERROR") > 0,
                  Item("COVERAGE_REPORT_HAS_ERRORS", None, "ERROR"))

\* Mutant: the batch report is not compared with the stored fingerprints.
ReadinessIssuesUncounted(plan, count, batch) ==
    IF count = 0 THEN {Item("NO_FINGERPRINTS", None, "ERROR")}
    ELSE IF batch = None THEN {Item("NO_VERIFICATION_BATCH_REPORT", None, "ERROR")}
    ELSE BatchIssues(Total(batchReports[batch]), batch) \cup CoverageIssues(plan)

ReadinessIssues(plan, count, batch) ==
    IF count = 0 THEN {Item("NO_FINGERPRINTS", None, "ERROR")}
    ELSE IF batch = None THEN {Item("NO_VERIFICATION_BATCH_REPORT", None, "ERROR")}
    ELSE BatchIssues(count, batch) \cup CoverageIssues(plan)

\* _determine_readiness_status
ReadinessStatus(issues, count, batch) ==
    IF Has(issues, "ERROR") THEN "BLOCKED"
    ELSE IF Has(issues, "WARNING") THEN "WARNING"
    ELSE IF count > 0 /\ batch # None /\ AllValid(batchReports[batch]) THEN "READY"
    ELSE "BLOCKED"

\* _validate_readiness_status
ValidReadiness(r) ==
    /\ r.status = "READY" =>
            /\ r.issues = {} /\ r.total_fingerprints > 0 /\ r.batch # None
            /\ Total(batchReports[r.batch]) = r.total_fingerprints
            /\ AllValid(batchReports[r.batch])
            /\ NoIssues(batchReports[r.batch])
    /\ r.status = "WARNING" => Has(r.issues, "WARNING") /\ ~Has(r.issues, "ERROR")
    /\ r.status = "BLOCKED" => Has(r.issues, "ERROR")

NotChecking == [report |-> None]

ReadinessOf(c, now) ==
    LET issues == ReadinessIssues(c.plan, c.count, c.batch)
    IN  [replay_plan_id |-> c.plan, checked_at |-> now,
         status |-> ReadinessStatus(issues, c.count, c.batch),
         total_fingerprints |-> c.count, batch |-> c.batch, issues |-> issues]

\* check_replay_plan: the fingerprints are listed,
CheckReplayPlan(id, plan) ==
    /\ checking = NotChecking
    /\ checking' = [report |-> id, plan |-> plan, count |-> Len(PlanFingerprints(plan)),
                    read |-> FALSE, batch |-> None]
    /\ UNCHANGED <<planningVars, fingerprints, verifications, batchReports, readiness,
                   manifests, verifying, losses>>

\* then the batch reports,
ReadBatchReports ==
    /\ checking # NotChecking /\ ~checking.read
    /\ checking' = [checking EXCEPT !.read = TRUE,
                        !.batch = LatestId(batchReports, checking.plan)]
    /\ UNCHANGED <<planningVars, fingerprints, verifications, batchReports, readiness,
                   manifests, verifying, losses>>

\* then the coverage reports; the report is made and saved.
SaveReadiness ==
    /\ checking # NotChecking /\ checking.read
    /\ \E now \in Times :
        LET r == ReadinessOf(checking, now)
        IN  readiness' = IF ValidReadiness(r) THEN Saved(readiness, checking.report, r)
                         ELSE readiness
    /\ checking' = NotChecking
    /\ UNCHANGED <<planningVars, fingerprints, verifications, batchReports, manifests,
                   verifying, losses>>

-----------------------------------------------------------------------------
(* The run manifest.                                                        *)

\* _require_ready_batch and the methods it calls
ReadyBatch(r) ==
    /\ r.batch \in DOMAIN batchReports
    /\ LET b == batchReports[r.batch]
       IN  /\ b.replay_plan_id = r.replay_plan_id
           /\ AllValid(b) /\ ~HasMismatches(b) /\ ~HasMissing(b) /\ NoIssues(b)
           /\ Total(b) = r.total_fingerprints
           /\ b.generated_at <= r.checked_at
           /\ Requested(b) # << >>

\* _plan_ready_manifest, up to the clock
Plannable(r) ==
    LET b == batchReports[r.batch]
        current == PlanFingerprints(r.replay_plan_id)
    IN  /\ current # << >> /\ Len(current) = r.total_fingerprints
        /\ current = Requested(b)
        /\ \A i \in DOMAIN current :
                fingerprints[current[i]].generated_at <= b.generated_at

ManifestOf(id, status, now) ==
    [replay_plan_id |-> readiness[id].replay_plan_id, status |-> status,
     readiness |-> id, batch |-> readiness[id].batch, created_at |-> now,
     fingerprint_ids |-> PlanFingerprints(readiness[id].replay_plan_id)]

\* plan_replay_run
PlanReplayRun(m, id) ==
    /\ id \in DOMAIN readiness
    /\ \E now \in Times :
        \/ /\ readiness[id].status = "READY"
           /\ ReadyBatch(readiness[id]) /\ Plannable(readiness[id])
           /\ readiness[id].checked_at <= now
           /\ manifests' = Saved(manifests, m, ManifestOf(id, "PLANNED", now))
        \/ /\ readiness[id].status # "READY"
           /\ manifests' = Saved(manifests, m, ManifestOf(id, "BLOCKED", now))
    /\ UNCHANGED <<planningVars, fingerprints, verifications, batchReports, readiness,
                   verifying, checking, losses>>

\* A timeline store that lost a timeline, as one in memory does when its
\* process ends; the timeline may be built again at another time.
LoseTimeline(t) ==
    /\ t \in DOMAIN timelines /\ losses < MaxLosses
    /\ timelines' = [u \in DOMAIN timelines \ {t} |-> timelines[u]]
    /\ losses' = losses + 1
    /\ UNCHANGED <<inputVars, cursorVars, auditVars, fingerprints, verifications,
                   batchReports, readiness, manifests, verifying, checking>>

-----------------------------------------------------------------------------
Init ==
    /\ PlanningInit
    /\ fingerprints = Nothing /\ verifications = Nothing /\ batchReports = Nothing
    /\ readiness = Nothing /\ manifests = Nothing
    /\ verifying = NotVerifying /\ checking = NotChecking /\ losses = 0

IntegrityNext ==
    \/ \E f \in Free(FingerprintIds, fingerprints) :
        \/ \E id \in TimelineIds : FingerprintArtifact(f, "TIMELINE", id)
        \/ \E id \in ReportIds : FingerprintArtifact(f, "COVERAGE_REPORT", id)
        \/ \E id \in DiffIds : FingerprintArtifact(f, "COVERAGE_DIFF", id)
    \/ \E v \in Free(BatchReportIds \X FingerprintIds, verifications) :
            VerifyFingerprint(v[1], v[2])
    \/ \E b \in Free(BatchReportIds, batchReports), ids \in FingerprintLists : VerifyBatch(b, None, ids)
    \/ \E b \in Free(BatchReportIds, batchReports), plan \in DOMAIN PlanStore :
            VerifyBatch(b, plan, PlanFingerprints(plan))
    \/ VerifyNext \/ FinishBatch \/ BatchFails
    \/ \E id \in Free(ReadinessIds, readiness), plan \in DOMAIN PlanStore : CheckReplayPlan(id, plan)
    \/ ReadBatchReports \/ SaveReadiness
    \/ \E m \in Free(ManifestIds, manifests), id \in ReadinessIds : PlanReplayRun(m, id)
    \/ \E t \in TimelineIds : LoseTimeline(t)

Next == \/ PlanningNext /\ UNCHANGED integrityVars
        \/ IntegrityNext

Spec == Init /\ [][Next]_vars

-----------------------------------------------------------------------------
(* Properties.                                                              *)

\* plan_replay_run (replay/integrity.py): a PLANNED manifest lists
\* fingerprints of its plan, each of which the batch it names found VALID
\* against an artifact equal to the one fingerprinted, and the plan had a
\* coverage report without errors if the checker looks at them; however
\* artifacts, fingerprints and batches came and went between the calls.
PlannedIsVerified ==
    \A m \in DOMAIN manifests : manifests[m].status = "PLANNED" =>
        /\ readiness[manifests[m].readiness].status = "READY"
        /\ manifests[m].fingerprint_ids # << >>
        /\ \A f \in Range(manifests[m].fingerprint_ids) :
            LET v == <<manifests[m].batch, f>>
            IN  /\ fingerprints[f].replay_plan_id = manifests[m].replay_plan_id
                /\ v \in DOMAIN verifications
                /\ verifications[v].recomputed = {fingerprints[f].payload}
        /\ CoverageStore => \E r \in DOMAIN reports :
            /\ reports[r].replay_plan_id = manifests[m].replay_plan_id
            /\ CountOf(reports[r].by_severity, "ERROR") = 0

\* check_replay_plan with _determine_readiness_status: whatever was saved
\* between its reads, the report it makes passes its own validator; the last
\* BLOCKED of _determine_readiness_status, which has no issue to show for it,
\* is never reached.
ReadinessConstructible ==
    checking # NotChecking /\ checking.read => ValidReadiness(ReadinessOf(checking, 0))
=============================================================================
