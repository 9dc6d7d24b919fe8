------------------------ MODULE ReplayIntegrityProofs ------------------------
(***************************************************************************)
(* Theorems about ReplayPlanning and ReplayIntegrity, for every set of      *)
(* batches, fingerprints and callers.                                       *)
(***************************************************************************)
EXTENDS ReplayIntegrity, FiniteSetTheorems, SequenceTheorems, WellFoundedInduction, TLAPS

-----------------------------------------------------------------------------
(* Finite sets in an order: the greatest member and the ordered list, that  *)
(* the readiness checker and the fingerprint store take by CHOOSE, exist.   *)

StrictOrder(R, D) ==
    /\ \A a \in D : <<a, a>> \notin R
    /\ \A a, b, c \in D : <<a, b>> \in R /\ <<b, c>> \in R => <<a, c>> \in R
    /\ \A a, b \in D : a = b \/ <<a, b>> \in R \/ <<b, a>> \in R

LEMMA LeastNumber ==
    ASSUME NEW S, S \subseteq Nat, S # {}
    PROVE  \E n \in S : \A k \in S : n <= k
<1>1. PICK n \in S : \A k \in S : <<k, n>> \notin OpToRel(<, Nat)
  BY NatLessThanWellFounded, WFMin
<1>2. \A k \in S : ~(k < n)
  BY <1>1 DEF OpToRel
<1> QED
  BY <1>2

GreatestIn(R, T) == \E m \in T : \A s \in T \ {m} : <<s, m>> \in R

LEMMA Greatest ==
    ASSUME NEW D, NEW R, StrictOrder(R, D), NEW S, S \subseteq D, IsFiniteSet(S), S # {}
    PROVE  GreatestIn(R, S)
<1> DEFINE Without(T) == T \subseteq D /\ IsFiniteSet(T) /\ T # {} /\ ~GreatestIn(R, T)
           Bad == {n \in Nat : \E T \in SUBSET D : Without(T) /\ Cardinality(T) = n}
<1> SUFFICES ASSUME ~GreatestIn(R, S) PROVE FALSE
  OBVIOUS
<1>1. Bad # {}
  BY FS_CardinalityType
<1>2. PICK n \in Bad : \A k \in Bad : n <= k
  <2> HIDE DEF Bad
  <2>1. Bad \subseteq Nat
    BY DEF Bad
  <2> QED
    BY <1>1, <2>1, LeastNumber
<1>3. PICK T \in SUBSET D : Without(T) /\ Cardinality(T) = n
  OBVIOUS
<1>4. PICK x \in T : TRUE
  BY <1>3
<1> DEFINE U == T \ {x}
<1>5. IsFiniteSet(U) /\ Cardinality(U) = n - 1
  BY <1>3, <1>4, FS_RemoveElement
<1>6. n - 1 \in Nat
  BY <1>5, FS_CardinalityType
<1>7. ~Without(U)
  <2>1. n - 1 \notin Bad
    BY <1>2, <1>6
  <2> HIDE DEF Without
  <2> QED
    BY <1>5, <1>6, <2>1
<1>8. CASE U = {}
  BY <1>3, <1>4, <1>8 DEF GreatestIn
<1>9. CASE U # {}
  <2>1. PICK m \in U : \A s \in U \ {m} : <<s, m>> \in R
    BY <1>5, <1>7, <1>9 DEF GreatestIn
  <2>2. <<m, x>> \in R \/ <<x, m>> \in R
    BY <1>4, <2>1 DEF StrictOrder
  <2>3. CASE <<m, x>> \in R
    <3>1. ASSUME NEW s \in T \ {x} PROVE <<s, x>> \in R
      BY <1>4, <2>1, <2>3, <3>1 DEF StrictOrder
    <3> QED
      BY <1>3, <1>4, <3>1 DEF GreatestIn
  <2>4. CASE <<x, m>> \in R
    BY <1>3, <1>4, <2>1, <2>4 DEF GreatestIn
  <2> QED
    BY <2>2, <2>3, <2>4
<1> QED
  BY <1>8, <1>9

ListedIn(R, T) ==
    \E list \in [1 .. Cardinality(T) -> T] :
        \A m, n \in 1 .. Cardinality(T) : m < n => <<list[m], list[n]>> \in R

LEMMA Listed ==
    ASSUME NEW D, NEW R, StrictOrder(R, D), NEW S, S \subseteq D, IsFiniteSet(S)
    PROVE  ListedIn(R, S)
<1> DEFINE Without(T) == T \subseteq D /\ IsFiniteSet(T) /\ ~ListedIn(R, T)
           Bad == {n \in Nat : \E T \in SUBSET D : Without(T) /\ Cardinality(T) = n}
<1> SUFFICES ASSUME ~ListedIn(R, S) PROVE FALSE
  OBVIOUS
<1>1. Bad # {}
  BY FS_CardinalityType
<1>2. PICK n \in Bad : \A k \in Bad : n <= k
  <2> HIDE DEF Bad
  <2>1. Bad \subseteq Nat
    BY DEF Bad
  <2> QED
    BY <1>1, <2>1, LeastNumber
<1>3. PICK T \in SUBSET D : Without(T) /\ Cardinality(T) = n
  OBVIOUS
<1>4. CASE T = {}
  <2>1. n = 0
    BY <1>3, <1>4, FS_EmptySet
  <2>2. PICK list \in [1 .. 0 -> T] : TRUE
    <3>1. [i \in 1 .. 0 |-> i] \in [1 .. 0 -> T]
      OBVIOUS
    <3> QED
      BY <3>1
  <2>3. Cardinality(T) = 0 /\ 1 .. 0 = {}
    BY <1>3, <2>1
  <2>4. ListedIn(R, T)
    BY <2>2, <2>3 DEF ListedIn
  <2> QED
    BY <1>3, <2>4
<1>5. CASE T # {}
  <2>1. PICK x \in T : \A s \in T \ {x} : <<s, x>> \in R
    BY <1>3, <1>5, Greatest DEF GreatestIn
  <2> DEFINE U == T \ {x}
  <2>2. IsFiniteSet(U) /\ Cardinality(U) = n - 1
    BY <1>3, <2>1, FS_RemoveElement
  <2>3. n - 1 \in Nat
    BY <2>2, FS_CardinalityType
  <2>4. ListedIn(R, U)
    <3>1. n - 1 \notin Bad
      BY <1>2, <2>3
    <3> QED
      BY <2>2, <2>3, <3>1
  <2>5. PICK list \in [1 .. n - 1 -> U] :
            \A i, j \in 1 .. n - 1 : i < j => <<list[i], list[j]>> \in R
    BY <2>2, <2>4 DEF ListedIn
  <2> DEFINE longer == [i \in 1 .. n |-> IF i = n THEN x ELSE list[i]]
  <2>6. longer \in [1 .. n -> T]
    BY <2>1, <2>3, <2>5
  <2>7. ASSUME NEW i \in 1 .. n, NEW j \in 1 .. n, i < j
        PROVE  <<longer[i], longer[j]>> \in R
    BY <2>1, <2>3, <2>5, <2>7
  <2> QED
    BY <1>3, <2>6, <2>7 DEF ListedIn
<1> QED
  BY <1>4, <1>5

\* The order of (generated_at, id) is one.
EarlierOn(store, D) == {p \in D \X D : Earlier(store, p[1], p[2])}

LEMMA EarlierOrders ==
    ASSUME NEW store, NEW D, D \subseteq Int, \A i \in D : store[i].generated_at \in Int
    PROVE  StrictOrder(EarlierOn(store, D), D)
<1>1. ASSUME NEW i \in D, NEW j \in D
      PROVE  <<i, j>> \in EarlierOn(store, D) <=>
                \/ store[i].generated_at < store[j].generated_at
                \/ store[i].generated_at = store[j].generated_at /\ i < j
  <2> DEFINE s == store[i].generated_at
             t == store[j].generated_at
  <2>1. Before(<<s, i>>, <<t, j>>) <=> s < t \/ (s = t /\ i < j)
    <3> HIDE DEF s, t
    <3>1. DOMAIN <<s, i>> = {1, 2} /\ 1 .. 1 - 1 = {} /\ 1 .. 2 - 1 = {1}
      OBVIOUS
    <3>2. Before(<<s, i>>, <<t, j>>) <=>
            \E n \in {1, 2} : <<s, i>>[n] < <<t, j>>[n]
                /\ \A m \in 1 .. n - 1 : <<s, i>>[m] = <<t, j>>[m]
      BY <3>1 DEF Before
    <3> QED
      BY <3>1, <3>2
  <2> QED
    BY <2>1 DEF EarlierOn, Earlier
<1>2. D \subseteq Int /\ \A i \in D : store[i].generated_at \in Int
  OBVIOUS
<1> QED
  BY <1>1, <1>2 DEF StrictOrder

-----------------------------------------------------------------------------
(* Stores.                                                                  *)

Grows(old, new) == DOMAIN old \subseteq DOMAIN new /\ \A i \in DOMAIN old : new[i] = old[i]

\* What save leaves.
LEMMA SavedGrows ==
    ASSUME NEW store, NEW id, NEW value
    PROVE  LET new == Saved(store, id, value)
           IN  /\ Grows(store, new) /\ DOMAIN new = DOMAIN store \cup {id}
               /\ \A i \in DOMAIN new : i \in DOMAIN store \/ (i = id /\ new[i] = value)
               /\ id \in DOMAIN store \/ new[id] = value
BY DEF Saved, Grows

\* The ids of a store and the times of its values.
KeysHold(store, ids) ==
    /\ IsFiniteSet(DOMAIN store) /\ DOMAIN store \subseteq ids
    /\ \A i \in DOMAIN store : store[i].generated_at \in Times

LEMMA SavedKeys ==
    ASSUME NEW store, NEW ids, KeysHold(store, ids), NEW id \in ids, NEW value,
           value.generated_at \in Times
    PROVE  KeysHold(Saved(store, id, value), ids)
<1> DEFINE new == Saved(store, id, value)
<1>1. /\ DOMAIN new = DOMAIN store \cup {id} /\ Grows(store, new)
      /\ \A i \in DOMAIN new : i \in DOMAIN store \/ (i = id /\ new[i] = value)
  BY SavedGrows
<1>2. IsFiniteSet(DOMAIN store \cup {id})
  BY FS_AddElement DEF KeysHold
<1> HIDE DEF new
<1>3. \A i \in DOMAIN new : new[i].generated_at \in Times
  BY <1>1 DEF KeysHold, Grows
<1> QED
  BY <1>1, <1>2, <1>3 DEF KeysHold, new

LEMMA PlanIsFinite ==
    ASSUME NEW store, NEW ids, KeysHold(store, ids), NEW plan
    PROVE  IsFiniteSet(OfPlan(store, plan)) /\ OfPlan(store, plan) \subseteq DOMAIN store
BY FS_Subset DEF KeysHold, OfPlan

LEMMA StoreInOrder ==
    ASSUME NEW store, NEW ids, KeysHold(store, ids), ids \subseteq Int
    PROVE  StrictOrder(EarlierOn(store, DOMAIN store), DOMAIN store)
BY EarlierOrders, NumbersAssumption DEF KeysHold

\* _latest_batch_report, _latest_coverage_report: the latest is one of them.
LEMMA LatestOfPlan ==
    ASSUME NEW store, NEW ids, KeysHold(store, ids), ids \subseteq Int, NEW plan,
           OfPlan(store, plan) # {}
    PROVE  LatestId(store, plan) \in OfPlan(store, plan)
<1> DEFINE S == OfPlan(store, plan)
           R == EarlierOn(store, DOMAIN store)
<1>1. StrictOrder(R, DOMAIN store) /\ IsFiniteSet(S) /\ S \subseteq DOMAIN store
  BY StoreInOrder, PlanIsFinite
<1>2. GreatestIn(R, S)
  <2> HIDE DEF R, S
  <2> QED
    BY <1>1, Greatest DEF S
<1>3. \E r \in S : \A s \in S \ {r} : Earlier(store, s, r)
  BY <1>1, <1>2 DEF GreatestIn, EarlierOn
<1> QED
  BY <1>3 DEF LatestId

\* list_for_replay_plan: the fingerprints of the plan, in a list.
LEMMA ListOfPlan ==
    ASSUME KeysHold(fingerprints, FingerprintIds), NEW plan
    PROVE  PlanFingerprints(plan) \in Seq(OfPlan(fingerprints, plan))
<1> DEFINE S == OfPlan(fingerprints, plan)
           R == EarlierOn(fingerprints, DOMAIN fingerprints)
           n == Cardinality(S)
<1>1. StrictOrder(R, DOMAIN fingerprints) /\ IsFiniteSet(S) /\ S \subseteq DOMAIN fingerprints
  BY StoreInOrder, PlanIsFinite, IdsAssumption
<1>2. n \in Nat
  BY <1>1, FS_CardinalityType
<1>3. ListedIn(R, S)
  <2> HIDE DEF R, S
  <2> QED
    BY <1>1, Listed
<1>4. PICK list \in [1 .. n -> S] : \A i, j \in 1 .. n : i < j => <<list[i], list[j]>> \in R
  BY <1>3 DEF ListedIn
<1>5. \A i, j \in DOMAIN list : i < j => Earlier(fingerprints, list[i], list[j])
  <2> HIDE DEF n, S
  <2> QED
    BY <1>4 DEF EarlierOn
<1>6. PlanFingerprints(plan) \in [1 .. n -> S]
  <2> HIDE DEF R
  <2> QED
    BY <1>4, <1>5 DEF PlanFingerprints
<1> HIDE DEF n, S
<1> QED
  BY <1>2, <1>6, IsASeq DEF S

-----------------------------------------------------------------------------
(* The inductive invariant.                                                 *)

\* Counts of errors are numbers.
ReportsHold ==
    /\ KeysHold(reports, ReportIds)
    /\ \A r \in DOMAIN reports : CountOf(reports[r].by_severity, "ERROR") \in Nat

FingerprintsHold == KeysHold(fingerprints, FingerprintIds)

\* A VALID item of a batch report has its verification, of the artifact that
\* was fingerprinted.
Sound(b, item) ==
    item.status = "VALID" =>
        LET f == item.fingerprint_id
        IN  /\ f \in DOMAIN fingerprints /\ <<b, f>> \in DOMAIN verifications
            /\ verifications[<<b, f>>].recomputed = {fingerprints[f].payload}

ItemsHold(b, items) ==
    items \in Seq(Range(items)) /\ \A n \in DOMAIN items : Sound(b, items[n])

BatchesHold ==
    /\ KeysHold(batchReports, BatchReportIds)
    /\ \A b \in DOMAIN batchReports : ItemsHold(b, batchReports[b].items)

Covered(plan) ==
    \E r \in DOMAIN reports :
        reports[r].replay_plan_id = plan /\ CountOf(reports[r].by_severity, "ERROR") = 0

\* A READY report saw a coverage report without errors.
ReadyHolds(r) == r.status = "READY" /\ CoverageStore => Covered(r.replay_plan_id)

ReadinessHolds == \A id \in DOMAIN readiness : ReadyHolds(readiness[id])

\* PlannedIsVerified of one manifest, whose readiness report is stored.
PlannedHolds(m) ==
    m.status = "PLANNED" =>
        /\ m.readiness \in DOMAIN readiness /\ readiness[m.readiness].status = "READY"
        /\ m.fingerprint_ids # << >>
        /\ \A f \in Range(m.fingerprint_ids) :
            /\ f \in DOMAIN fingerprints /\ fingerprints[f].replay_plan_id = m.replay_plan_id
            /\ <<m.batch, f>> \in DOMAIN verifications
            /\ verifications[<<m.batch, f>>].recomputed = {fingerprints[f].payload}
        /\ CoverageStore => Covered(m.replay_plan_id)

ManifestsHold == \A m \in DOMAIN manifests : PlannedHolds(manifests[m])

\* The calls that are cut.
VerifyingHolds ==
    \/ verifying = NotVerifying
    \/ /\ verifying = [report |-> verifying.report, plan |-> verifying.plan,
                       ids |-> verifying.ids, now |-> verifying.now, items |-> verifying.items]
       /\ verifying.report \in BatchReportIds /\ verifying.now \in Times
       /\ ItemsHold(verifying.report, verifying.items)

CheckingHolds ==
    \/ checking = NotChecking
    \/ /\ checking = [report |-> checking.report, plan |-> checking.plan,
                      count |-> checking.count, read |-> checking.read,
                      batch |-> checking.batch]
       /\ checking.count \in Nat
       /\ checking.batch = None \/ checking.batch \in DOMAIN batchReports

IntegrityInv ==
    /\ ReportsHold /\ FingerprintsHold /\ BatchesHold /\ ReadinessHolds /\ ManifestsHold
    /\ VerifyingHolds /\ CheckingHolds

LEMMA IntegrityStart == Init => IntegrityInv
<1> SUFFICES ASSUME Init PROVE IntegrityInv
  OBVIOUS
<1>1. /\ reports = Nothing /\ fingerprints = Nothing /\ batchReports = Nothing
      /\ readiness = Nothing /\ manifests = Nothing
      /\ verifying = NotVerifying /\ checking = NotChecking
  BY DEF Init, PlanningInit
<1>2. DOMAIN Nothing = {} /\ IsFiniteSet({})
  BY FS_EmptySet DEF Nothing
<1> QED
  BY <1>1, <1>2 DEF IntegrityInv, ReportsHold, FingerprintsHold, BatchesHold, ReadinessHolds,
     ManifestsHold, VerifyingHolds, CheckingHolds, KeysHold

-----------------------------------------------------------------------------
(* What was said of stored values stays true.                               *)

\* Stores that others point into never drop or change a value.
StoresGrow ==
    /\ Grows(reports, reports') /\ Grows(fingerprints, fingerprints')
    /\ Grows(verifications, verifications') /\ Grows(readiness, readiness')
    /\ Grows(batchReports, batchReports')

LEMMA Same == ASSUME NEW store PROVE Grows(store, store)
BY DEF Grows

LEMMA SoundStays ==
    ASSUME StoresGrow, NEW b, NEW items, ItemsHold(b, items)
    PROVE  ItemsHold(b, items)'
BY DEF StoresGrow, Grows, ItemsHold, Sound

\* A step keeps the invariant if what it adds satisfies it.
LEMMA IntegrityStays ==
    ASSUME IntegrityInv, StoresGrow, ReportsHold', FingerprintsHold',
           KeysHold(batchReports', BatchReportIds),
           \A b \in DOMAIN batchReports' :
                \/ b \in DOMAIN batchReports /\ batchReports'[b] = batchReports[b]
                \/ ItemsHold(b, batchReports'[b].items),
           \A id \in DOMAIN readiness' :
                \/ id \in DOMAIN readiness /\ readiness'[id] = readiness[id]
                \/ ReadyHolds(readiness'[id]),
           \A m \in DOMAIN manifests' :
                \/ m \in DOMAIN manifests /\ manifests'[m] = manifests[m]
                \/ PlannedHolds(manifests'[m]),
           verifying' = verifying \/ VerifyingHolds',
           checking' = checking \/ CheckingHolds'
    PROVE  IntegrityInv'
<1>1. BatchesHold'
  <2>1. ASSUME NEW b \in DOMAIN batchReports' PROVE ItemsHold(b, batchReports'[b].items)
    BY DEF IntegrityInv, BatchesHold
  <2>2. ASSUME NEW b \in DOMAIN batchReports' PROVE ItemsHold(b, batchReports[b].items)'
    <3> DEFINE items == batchReports'[b].items
    <3>1. ItemsHold(b, items)
      BY <2>1
    <3> QED
      BY <3>1, SoundStays DEF StoresGrow, Grows, ItemsHold, Sound
  <2> QED
    BY <2>2 DEF BatchesHold
<1>2. ReadinessHolds'
  <2>1. ASSUME NEW id \in DOMAIN readiness' PROVE ReadyHolds(readiness'[id])
    BY DEF IntegrityInv, ReadinessHolds
  <2> QED
    BY <2>1 DEF StoresGrow, Grows, ReadinessHolds, ReadyHolds, Covered
<1>3. ManifestsHold'
  <2>1. ASSUME NEW m \in DOMAIN manifests' PROVE PlannedHolds(manifests'[m])
    BY DEF IntegrityInv, ManifestsHold
  <2>2. ASSUME NEW m \in DOMAIN manifests' PROVE PlannedHolds(manifests[m])'
    BY <2>1 DEF StoresGrow, Grows, PlannedHolds, Covered
  <2> QED
    BY <2>2 DEF ManifestsHold
<1>4. VerifyingHolds'
  <2>1. CASE verifying' = verifying
    <3>1. CASE verifying = NotVerifying
      BY <2>1, <3>1 DEF VerifyingHolds, NotVerifying
    <3>2. CASE verifying # NotVerifying
      <4>1. ItemsHold(verifying.report, verifying.items)
        BY <3>2 DEF IntegrityInv, VerifyingHolds
      <4>2. (ItemsHold(verifying.report, verifying.items))'
        BY <2>1, <4>1 DEF StoresGrow, Grows, ItemsHold, Sound
      <4> QED
        BY <2>1, <3>2, <4>2 DEF IntegrityInv, VerifyingHolds
    <3> QED
      BY <3>1, <3>2
  <2> QED
    BY <2>1
<1>5. CheckingHolds'
  <2>1. DOMAIN batchReports \subseteq DOMAIN batchReports'
    BY DEF StoresGrow, Grows
  <2> QED
    BY <2>1 DEF IntegrityInv, CheckingHolds, NotChecking
<1> QED
  BY <1>1, <1>2, <1>3, <1>4, <1>5 DEF IntegrityInv

-----------------------------------------------------------------------------
(* Steps.                                                                   *)

\* Steps that touch nothing of this but the coverage reports.
LEMMA PlanningKeeps ==
    ASSUME IntegrityInv,
           UNCHANGED <<fingerprints, verifications, batchReports, readiness, manifests,
                       verifying, checking>>,
           \/ UNCHANGED reports
           \/ \E t, x : \E r \in ReportIds : GenerateReport(r, t, x)
    PROVE  IntegrityInv'
<1>1. ReportsHold' /\ Grows(reports, reports')
  <2>1. CASE UNCHANGED reports
    BY <2>1, Same DEF IntegrityInv, ReportsHold
  <2>2. CASE \E t, x : \E r \in ReportIds : GenerateReport(r, t, x)
    <3>1. PICK r, t, x : r \in ReportIds /\ GenerateReport(r, t, x)
      BY <2>2
    <3>2. PICK now \in Times : reports' = Saved(reports, r, ReportOf(t, x, now))
      BY <3>1 DEF GenerateReport
    <3> DEFINE report == ReportOf(t, x, now)
               issues == IssuesOf(timelines[t], x)
    <3>3. report.generated_at \in Times /\ report.by_severity = SeverityCounts(issues)
      BY <3>2 DEF ReportOf
    <3>4. CountOf(SeverityCounts(issues), "ERROR") \in Nat
      <4>1. \A item \in issues : item.severity = "ERROR" =>
                item = Item("EMPTY_TIMELINE", None, "ERROR")
        BY DEF IssuesOf, When, Item, MissingIssues, GapIssues, WindowIssues
      <4> DEFINE errors == {item \in issues : item.severity = "ERROR"}
      <4> HIDE DEF issues
      <4>2. IsFiniteSet(errors)
        <5>1. errors \subseteq {Item("EMPTY_TIMELINE", None, "ERROR")}
          BY <4>1
        <5> HIDE DEF errors
        <5> QED
          BY <5>1, FS_Singleton, FS_Subset
      <4>3. Cardinality(errors) \in Nat
        BY <4>2, FS_CardinalityType
      <4> QED
        BY <4>3 DEF CountOf, SeverityCounts
    <3> HIDE DEF report
    <3>5. KeysHold(reports', ReportIds)
      BY <3>1, <3>2, <3>3, SavedKeys DEF IntegrityInv, ReportsHold, report
    <3>6. /\ Grows(reports, reports')
          /\ \A i \in DOMAIN reports' : i \in DOMAIN reports \/ reports'[i] = report
      BY <3>2, SavedGrows DEF report
    <3>7. \A i \in DOMAIN reports' : CountOf(reports'[i].by_severity, "ERROR") \in Nat
      BY <3>3, <3>4, <3>6 DEF IntegrityInv, ReportsHold, Grows
    <3> QED
      BY <3>5, <3>6, <3>7 DEF ReportsHold
  <2> QED
    BY <2>1, <2>2
<1>2. StoresGrow
  BY <1>1, Same DEF StoresGrow
<1>3. KeysHold(batchReports', BatchReportIds) /\ FingerprintsHold'
  BY DEF IntegrityInv, BatchesHold, FingerprintsHold
<1> QED
  BY <1>1, <1>2, <1>3, IntegrityStays

LEMMA FingerprintKeeps ==
    ASSUME IntegrityInv, NEW f \in FingerprintIds, NEW kind, NEW id,
           FingerprintArtifact(f, kind, id)
    PROVE  IntegrityInv'
<1>1. UNCHANGED <<planningVars, verifications, batchReports, readiness, manifests,
                  verifying, checking>>
  BY DEF FingerprintArtifact
<1>2. PICK value : value.generated_at \in Times /\ fingerprints' = Saved(fingerprints, f, value)
  BY DEF FingerprintArtifact
<1>3. FingerprintsHold'
  BY <1>2, SavedKeys DEF IntegrityInv, FingerprintsHold
<1>4. Grows(fingerprints, fingerprints')
  BY <1>2, SavedGrows
<1>5. StoresGrow
  BY <1>1, <1>4, Same DEF StoresGrow, planningVars
<1>6. KeysHold(batchReports', BatchReportIds) /\ ReportsHold'
  BY <1>1 DEF IntegrityInv, BatchesHold, ReportsHold, planningVars
<1> QED
  BY <1>1, <1>3, <1>5, <1>6, IntegrityStays

\* Steps that leave reports, fingerprints and batch reports alone.
LEMMA CallKeeps ==
    ASSUME IntegrityInv, UNCHANGED <<planningVars, fingerprints, batchReports>>,
           Grows(verifications, verifications'), Grows(readiness, readiness'),
           \A id \in DOMAIN readiness' :
                \/ id \in DOMAIN readiness /\ readiness'[id] = readiness[id]
                \/ ReadyHolds(readiness'[id]),
           \A m \in DOMAIN manifests' :
                \/ m \in DOMAIN manifests /\ manifests'[m] = manifests[m]
                \/ PlannedHolds(manifests'[m]),
           verifying' = verifying \/ VerifyingHolds',
           checking' = checking \/ CheckingHolds'
    PROVE  IntegrityInv'
<1>1. StoresGrow
  BY Same DEF StoresGrow, planningVars
<1>2. ReportsHold' /\ FingerprintsHold' /\ KeysHold(batchReports', BatchReportIds)
  BY DEF IntegrityInv, ReportsHold, FingerprintsHold, BatchesHold, planningVars
<1> QED
  BY <1>1, <1>2, IntegrityStays

LEMMA VerifyFingerprintKeeps ==
    ASSUME IntegrityInv, NEW b, NEW f, VerifyFingerprint(b, f)
    PROVE  IntegrityInv'
<1>1. /\ UNCHANGED <<planningVars, fingerprints, batchReports, readiness, manifests,
                     verifying, checking>>
      /\ \E value : verifications' = Saved(verifications, <<b, f>>, value)
  BY DEF VerifyFingerprint
<1>2. PICK id, value : verifications' = Saved(verifications, id, value)
  BY <1>1
<1>3. Grows(verifications, verifications')
  BY <1>2, SavedGrows
<1> QED
  BY <1>1, <1>3, Same, CallKeeps

LEMMA VerifyBatchKeeps ==
    ASSUME IntegrityInv, NEW b \in BatchReportIds, NEW plan, NEW ids,
           VerifyBatch(b, plan, ids)
    PROVE  IntegrityInv'
<1>1. UNCHANGED <<planningVars, fingerprints, verifications, batchReports, readiness,
                  manifests, checking>>
  BY DEF VerifyBatch
<1>2. PICK now \in Times :
        verifying' = [report |-> b, plan |-> plan, ids |-> ids, now |-> now, items |-> << >>]
  BY DEF VerifyBatch
<1>3. VerifyingHolds'
  BY <1>2 DEF VerifyingHolds, ItemsHold, Sound
<1> QED
  BY <1>1, <1>3, Same, CallKeeps

LEMMA Appended ==
    ASSUME NEW s, s \in Seq(Range(s)), NEW x
    PROVE  /\ Append(s, x) \in Seq(Range(Append(s, x)))
           /\ \A n \in DOMAIN Append(s, x) :
                (n \in DOMAIN s /\ Append(s, x)[n] = s[n]) \/ Append(s, x)[n] = x
<1> DEFINE t == Append(s, x)
           S == Range(s) \cup {x}
<1>1. s \in Seq(S) /\ Len(s) \in Nat
  <2>1. Len(s) \in Nat /\ DOMAIN s = 1 .. Len(s)
    BY LenProperties
  <2>2. s \in [1 .. Len(s) -> S]
    BY <2>1, LenProperties DEF Range
  <2> HIDE DEF S
  <2> QED
    BY <2>1, <2>2, IsASeq
<1> HIDE DEF S
<1>2. x \in S
  BY DEF S
<1>3. /\ t \in Seq(S) /\ Len(t) = Len(s) + 1 /\ DOMAIN t = 1 .. Len(s) + 1
      /\ DOMAIN s = 1 .. Len(s)
      /\ \A n \in 1 .. Len(s) : t[n] = s[n]
      /\ t[Len(s) + 1] = x
  BY <1>1, <1>2, AppendProperties, LenProperties
<1> HIDE DEF t
<1>4. t \in Seq(Range(t))
  <2>1. t = [n \in 1 .. Len(s) + 1 |-> t[n]]
    BY <1>3, LenProperties
  <2>2. t \in [1 .. Len(s) + 1 -> Range(t)]
    BY <1>3, <2>1 DEF Range
  <2> QED
    BY <1>1, <2>2, IsASeq
<1>5. \A n \in DOMAIN t : (n \in DOMAIN s /\ t[n] = s[n]) \/ t[n] = x
  BY <1>1, <1>3
<1> QED
  BY <1>4, <1>5 DEF t

LEMMA ItemAdded ==
    ASSUME NEW b, NEW s, NEW item, ItemsHold(b, s), StoresGrow, Sound(b, item)'
    PROVE  ItemsHold(b, Append(s, item))'
<1>1. ItemsHold(b, s)'
  BY SoundStays
<1>2. /\ Append(s, item) \in Seq(Range(Append(s, item)))
      /\ \A n \in DOMAIN Append(s, item) :
            (n \in DOMAIN s /\ Append(s, item)[n] = s[n]) \/ Append(s, item)[n] = item
  BY Appended DEF ItemsHold
<1> DEFINE t == Append(s, item)
<1> HIDE DEF t
<1>3. \A n \in DOMAIN t : Sound(b, t[n])'
  BY <1>1, <1>2 DEF ItemsHold, Sound, t
<1> QED
  BY <1>2, <1>3 DEF ItemsHold, t

LEMMA VerifyNextKeeps == IntegrityInv /\ VerifyNext => IntegrityInv'
<1> SUFFICES ASSUME IntegrityInv, VerifyNext PROVE IntegrityInv'
  OBVIOUS
<1>1. /\ UNCHANGED <<planningVars, fingerprints, batchReports, readiness, manifests, checking>>
      /\ verifying # NotVerifying
  BY DEF VerifyNext
<1>2. PICK f, b, s, v :
        /\ f = NextToVerify /\ b = verifying.report /\ s = verifying.items
        /\ v.status = Verdict(f)
        /\ v.recomputed = IF f \in DOMAIN fingerprints THEN ArtifactOf(f) ELSE {}
        /\ <<b, f>> \in DOMAIN verifications => verifications[<<b, f>>] = v
        /\ verifications' = Saved(verifications, <<b, f>>, v)
        /\ verifying' = [verifying EXCEPT !.items = Append(@,
                [fingerprint_id |-> f, status |-> v.status, replay_plan_id |-> v.replay_plan_id])]
  <2>1. PICK now \in Times :
            LET v == VerificationOf(NextToVerify, now)
                id == <<verifying.report, NextToVerify>>
            IN  /\ id \in DOMAIN verifications => verifications[id] = v
                /\ verifications' = Saved(verifications, id, v)
                /\ verifying' = [verifying EXCEPT !.items = Append(@,
                        [fingerprint_id |-> NextToVerify, status |-> v.status,
                         replay_plan_id |-> v.replay_plan_id])]
    BY DEF VerifyNext
  <2> DEFINE v == VerificationOf(NextToVerify, now)
             f == NextToVerify
  <2>2. /\ v.status = Verdict(f)
        /\ v.recomputed = IF f \in DOMAIN fingerprints THEN ArtifactOf(f) ELSE {}
    BY DEF VerificationOf
  <2> HIDE DEF v, f
  <2> QED
    BY <2>1, <2>2 DEF v, f
<1>3. PICK item :
        item = [fingerprint_id |-> f, status |-> v.status, replay_plan_id |-> v.replay_plan_id]
  OBVIOUS
<1>4. /\ verifying = [report |-> b, plan |-> verifying.plan, ids |-> verifying.ids,
                      now |-> verifying.now, items |-> s]
      /\ b \in BatchReportIds /\ verifying.now \in Times /\ ItemsHold(b, s)
  BY <1>1, <1>2 DEF IntegrityInv, VerifyingHolds
<1>5. verifying' = [report |-> b, plan |-> verifying.plan, ids |-> verifying.ids,
                    now |-> verifying.now, items |-> Append(s, item)]
  BY <1>2, <1>3, <1>4
<1>6. /\ Grows(verifications, verifications') /\ <<b, f>> \in DOMAIN verifications'
      /\ verifications'[<<b, f>>] = v
  <2> DEFINE id == <<b, f>>
  <2> HIDE DEF id
  <2>1. /\ Grows(verifications, Saved(verifications, id, v))
        /\ DOMAIN Saved(verifications, id, v) = DOMAIN verifications \cup {id}
        /\ id \in DOMAIN verifications \/ Saved(verifications, id, v)[id] = v
    BY SavedGrows
  <2> QED
    BY <1>2, <2>1 DEF Grows, id
<1>7. v.status = "VALID" => f \in DOMAIN fingerprints /\ v.recomputed = {fingerprints[f].payload}
  BY <1>2 DEF Verdict
<1>8. StoresGrow
  BY <1>1, <1>6, Same DEF StoresGrow, planningVars
<1>9. Sound(b, item)'
  BY <1>1, <1>3, <1>6, <1>7 DEF Sound
<1>10. ItemsHold(b, Append(s, item))'
  BY <1>4, <1>8, <1>9, ItemAdded
<1>11. VerifyingHolds'
  <2>1. (ItemsHold(verifying.report, verifying.items))'
    <3> DEFINE t == Append(s, item)
    <3> HIDE DEF t
    <3>1. verifying'.report = b /\ verifying'.items = t
      BY <1>5 DEF t
    <3> QED
      BY <1>10, <3>1 DEF ItemsHold, Sound, t
  <2>2. /\ verifying'.report = b /\ verifying'.plan = verifying.plan
        /\ verifying'.ids = verifying.ids /\ verifying'.now = verifying.now
        /\ verifying'.items = Append(s, item)
    BY <1>5
  <2> QED
    BY <1>4, <1>5, <2>1, <2>2 DEF VerifyingHolds
<1> QED
  BY <1>1, <1>6, <1>11, Same, CallKeeps

LEMMA FinishBatchKeeps == IntegrityInv /\ FinishBatch => IntegrityInv'
<1> SUFFICES ASSUME IntegrityInv, FinishBatch PROVE IntegrityInv'
  OBVIOUS
<1>1. /\ UNCHANGED <<planningVars, fingerprints, verifications, readiness, manifests, checking>>
      /\ verifying # NotVerifying /\ verifying' = NotVerifying
  BY DEF FinishBatch
<1> DEFINE b == verifying.report
           report == [replay_plan_id |-> IF verifying.plan # None THEN verifying.plan
                                         ELSE PlanOfItems(verifying.items),
                      generated_at |-> verifying.now, items |-> verifying.items]
<1>2. batchReports' = Saved(batchReports, b, report)
  BY DEF FinishBatch
<1>3. report.generated_at = verifying.now /\ report.items = verifying.items
  OBVIOUS
<1>4. b \in BatchReportIds /\ verifying.now \in Times /\ ItemsHold(b, verifying.items)
  BY <1>1 DEF IntegrityInv, VerifyingHolds
<1> HIDE DEF report, b
<1>5. KeysHold(batchReports', BatchReportIds)
  BY <1>2, <1>3, <1>4, SavedKeys DEF IntegrityInv, BatchesHold
<1>6. \A i \in DOMAIN batchReports' :
        \/ i \in DOMAIN batchReports /\ batchReports'[i] = batchReports[i]
        \/ ItemsHold(i, batchReports'[i].items)
  <2>1. /\ Grows(batchReports, batchReports')
        /\ \A i \in DOMAIN batchReports' :
                i \in DOMAIN batchReports \/ (i = b /\ batchReports'[i] = report)
    BY <1>2, SavedGrows
  <2> QED
    BY <1>3, <1>4, <2>1 DEF Grows
<1>7. Grows(batchReports, batchReports')
  BY <1>2, SavedGrows
<1>8. StoresGrow
  BY <1>1, <1>7, Same DEF StoresGrow, planningVars
<1>9. ReportsHold' /\ FingerprintsHold' /\ VerifyingHolds'
  BY <1>1 DEF planningVars, IntegrityInv, ReportsHold, FingerprintsHold, VerifyingHolds,
     NotVerifying
<1> QED
  BY <1>1, <1>5, <1>6, <1>8, <1>9, IntegrityStays

\* The conditions of AllValid are met by VALID items alone.
LEMMA AllAreValid ==
    ASSUME NEW r, r.items \in Seq(Range(r.items)), AllValid(r)
    PROVE  \A i \in DOMAIN r.items : r.items[i].status = "VALID"
<1> DEFINE n == Len(r.items)
           V == WithStatus(r, {"VALID"})
<1>1. n \in Nat /\ DOMAIN r.items = 1 .. n
  BY LenProperties
<1>2. Cardinality(V) = n /\ V \subseteq 1 .. n
  BY <1>1 DEF AllValid, Total, WithStatus
<1>3. IsFiniteSet(1 .. n) /\ Cardinality(1 .. n) = n
  BY <1>1, FS_Interval
<1>4. V = 1 .. n
  <2> HIDE DEF n, V
  <2> QED
    BY <1>2, <1>3, FS_Subset
<1> QED
  BY <1>1, <1>4 DEF WithStatus

\* What READY takes.
LEMMA ReadyMeans ==
    ASSUME NEW plan, NEW count, NEW batch,
           ReadinessStatus(ReadinessIssues(plan, count, batch), count, batch) = "READY"
    PROVE  /\ count # 0 /\ batch # None /\ AllValid(batchReports[batch])
           /\ Total(batchReports[batch]) = count
           /\ ReadinessIssues(plan, count, batch) = {}
           /\ CoverageStore =>
                /\ LatestId(reports, plan) # None
                /\ ~(CountOf(reports[LatestId(reports, plan)].by_severity, "ERROR") > 0)
<1> DEFINE issues == ReadinessIssues(plan, count, batch)
<1>1. /\ \A x \in issues : x.severity # "ERROR" /\ x.severity # "WARNING"
      /\ batch # None /\ AllValid(batchReports[batch])
  BY DEF ReadinessStatus, Has
<1>2. count # 0 /\ issues = BatchIssues(count, batch) \cup CoverageIssues(plan)
  BY <1>1 DEF ReadinessIssues, Item
<1>3. \A x \in issues : x.severity \in {"ERROR", "WARNING"}
  BY <1>2 DEF BatchIssues, CoverageIssues, When, Item
<1>4. issues = {}
  BY <1>1, <1>3
<1> HIDE DEF issues
<1>5. Total(batchReports[batch]) = count
  BY <1>2, <1>4 DEF BatchIssues, When
<1>6. CoverageStore =>
        /\ LatestId(reports, plan) # None
        /\ ~(CountOf(reports[LatestId(reports, plan)].by_severity, "ERROR") > 0)
  BY <1>2, <1>4 DEF CoverageIssues, When
<1> QED
  BY <1>1, <1>2, <1>4, <1>5, <1>6 DEF issues

LEMMA CheckReplayPlanKeeps ==
    ASSUME IntegrityInv, NEW id, NEW plan, CheckReplayPlan(id, plan)
    PROVE  IntegrityInv'
<1>1. /\ UNCHANGED <<planningVars, fingerprints, verifications, batchReports, readiness,
                     manifests, verifying>>
      /\ checking' = [report |-> id, plan |-> plan, count |-> Len(PlanFingerprints(plan)),
                      read |-> FALSE, batch |-> None]
  BY DEF CheckReplayPlan
<1>2. Len(PlanFingerprints(plan)) \in Nat
  BY ListOfPlan, LenProperties DEF IntegrityInv, FingerprintsHold
<1>3. CheckingHolds'
  BY <1>1, <1>2 DEF CheckingHolds
<1> QED
  BY <1>1, <1>3, Same, CallKeeps

LEMMA ReadBatchReportsKeeps == IntegrityInv /\ ReadBatchReports => IntegrityInv'
<1> SUFFICES ASSUME IntegrityInv, ReadBatchReports PROVE IntegrityInv'
  OBVIOUS
<1> DEFINE latest == LatestId(batchReports, checking.plan)
<1>1. /\ UNCHANGED <<planningVars, fingerprints, verifications, batchReports, readiness,
                     manifests, verifying>>
      /\ checking # NotChecking
      /\ checking' = [checking EXCEPT !.read = TRUE, !.batch = latest]
  BY DEF ReadBatchReports
<1>2. latest = None \/ latest \in DOMAIN batchReports
  <2>1. CASE OfPlan(batchReports, checking.plan) = {}
    BY <2>1 DEF LatestId
  <2>2. CASE OfPlan(batchReports, checking.plan) # {}
    BY <2>2, LatestOfPlan, IdsAssumption DEF IntegrityInv, BatchesHold, OfPlan
  <2> QED
    BY <2>1, <2>2
<1> HIDE DEF latest
<1>3. CheckingHolds'
  <2>1. /\ checking = [report |-> checking.report, plan |-> checking.plan,
                       count |-> checking.count, read |-> checking.read,
                       batch |-> checking.batch]
        /\ checking.count \in Nat
    BY <1>1 DEF IntegrityInv, CheckingHolds
  <2>2. checking' = [report |-> checking.report, plan |-> checking.plan,
                     count |-> checking.count, read |-> TRUE, batch |-> latest]
    BY <1>1, <2>1
  <2> QED
    BY <1>1, <1>2, <2>1, <2>2 DEF CheckingHolds
<1> QED
  BY <1>1, <1>3, Same, CallKeeps

LEMMA SaveReadinessKeeps == IntegrityInv /\ SaveReadiness => IntegrityInv'
<1> SUFFICES ASSUME IntegrityInv, SaveReadiness PROVE IntegrityInv'
  OBVIOUS
<1> DEFINE plan == checking.plan
<1>1. /\ UNCHANGED <<planningVars, fingerprints, verifications, batchReports, manifests,
                     verifying>>
      /\ checking' = NotChecking
  BY DEF SaveReadiness
<1>2. PICK r : /\ r.replay_plan_id = plan
               /\ r.status = ReadinessStatus(
                        ReadinessIssues(plan, checking.count, checking.batch),
                        checking.count, checking.batch)
               /\ readiness' = IF ValidReadiness(r) THEN Saved(readiness, checking.report, r)
                               ELSE readiness
  <2>1. PICK now \in Times :
            readiness' = IF ValidReadiness(ReadinessOf(checking, now))
                         THEN Saved(readiness, checking.report, ReadinessOf(checking, now))
                         ELSE readiness
    BY DEF SaveReadiness
  <2> DEFINE r == ReadinessOf(checking, now)
  <2>2. /\ r.replay_plan_id = plan
        /\ r.status = ReadinessStatus(
                ReadinessIssues(plan, checking.count, checking.batch),
                checking.count, checking.batch)
    BY DEF ReadinessOf
  <2> HIDE DEF r
  <2> QED
    BY <2>1, <2>2 DEF r
<1>3. ReadyHolds(r)
  <2> SUFFICES ASSUME r.status = "READY", CoverageStore PROVE Covered(plan)
    BY <1>2 DEF ReadyHolds
  <2> DEFINE latest == LatestId(reports, plan)
  <2>1. latest # None /\ ~(CountOf(reports[latest].by_severity, "ERROR") > 0)
    BY <1>2, ReadyMeans
  <2>2. OfPlan(reports, plan) # {}
    BY <2>1 DEF LatestId
  <2>3. latest \in OfPlan(reports, plan)
    BY <2>2, LatestOfPlan, NumbersAssumption DEF IntegrityInv, ReportsHold
  <2> HIDE DEF latest
  <2>4. CountOf(reports[latest].by_severity, "ERROR") \in Nat
    BY <2>3 DEF IntegrityInv, ReportsHold, OfPlan
  <2> QED
    BY <2>1, <2>3, <2>4 DEF Covered, OfPlan
<1>4. /\ Grows(readiness, readiness')
      /\ \A id \in DOMAIN readiness' :
            \/ id \in DOMAIN readiness /\ readiness'[id] = readiness[id]
            \/ ReadyHolds(readiness'[id])
  <2> DEFINE new == Saved(readiness, checking.report, r)
  <2>1. /\ Grows(readiness, new)
        /\ \A i \in DOMAIN new : i \in DOMAIN readiness \/ new[i] = r
    BY SavedGrows
  <2>2. readiness' = new \/ readiness' = readiness
    BY <1>2
  <2> HIDE DEF new
  <2> QED
    BY <1>3, <2>1, <2>2, Same DEF Grows
<1>5. CheckingHolds'
  BY <1>1 DEF CheckingHolds, NotChecking
<1> QED
  BY <1>1, <1>4, <1>5, Same, CallKeeps

\* A manifest made with PLANNED.
LEMMA PlannedMade ==
    ASSUME IntegrityInv, NEW id \in DOMAIN readiness, readiness[id].status = "READY",
           ReadyBatch(readiness[id]), Plannable(readiness[id]), NEW now
    PROVE  PlannedHolds(ManifestOf(id, "PLANNED", now))
<1> DEFINE r == readiness[id]
           b == batchReports[r.batch]
           current == PlanFingerprints(r.replay_plan_id)
           m == ManifestOf(id, "PLANNED", now)
<1>1. /\ m.readiness = id /\ m.batch = r.batch /\ m.fingerprint_ids = current
      /\ m.replay_plan_id = r.replay_plan_id
  BY DEF ManifestOf
<1>2. /\ r.batch \in DOMAIN batchReports /\ AllValid(b)
      /\ current # << >> /\ current = Requested(b)
  BY DEF ReadyBatch, Plannable
<1>3. current \in Seq(OfPlan(fingerprints, r.replay_plan_id))
  BY ListOfPlan DEF IntegrityInv, FingerprintsHold
<1>4. ItemsHold(r.batch, b.items)
  BY <1>2 DEF IntegrityInv, BatchesHold
<1>5. \A i \in DOMAIN b.items : b.items[i].status = "VALID"
  BY <1>2, <1>4, AllAreValid DEF ItemsHold
<1>6. Covered(r.replay_plan_id) \/ ~CoverageStore
  BY DEF IntegrityInv, ReadinessHolds, ReadyHolds
<1> HIDE DEF r, b, current, m
<1>7. ASSUME NEW f \in Range(current)
      PROVE  /\ f \in DOMAIN fingerprints /\ fingerprints[f].replay_plan_id = r.replay_plan_id
             /\ <<r.batch, f>> \in DOMAIN verifications
             /\ verifications[<<r.batch, f>>].recomputed = {fingerprints[f].payload}
  <2>1. PICK i \in DOMAIN current : f = current[i]
    BY DEF Range
  <2>2. f \in OfPlan(fingerprints, r.replay_plan_id)
    BY <1>3, <2>1, ElementOfSeq, LenProperties
  <2>3. i \in DOMAIN b.items /\ f = b.items[i].fingerprint_id
    BY <1>2, <2>1 DEF Requested
  <2>4. Sound(r.batch, b.items[i]) /\ b.items[i].status = "VALID"
    BY <1>4, <1>5, <2>3 DEF ItemsHold
  <2> QED
    BY <2>2, <2>3, <2>4 DEF Sound, OfPlan
<1>8. readiness[m.readiness].status = "READY" /\ m.readiness \in DOMAIN readiness
  BY <1>1
<1>9. m.fingerprint_ids # << >>
  BY <1>1, <1>2
<1> QED
  BY <1>1, <1>6, <1>7, <1>8, <1>9 DEF PlannedHolds, m

LEMMA PlanReplayRunKeeps ==
    ASSUME IntegrityInv, NEW m, NEW id, PlanReplayRun(m, id)
    PROVE  IntegrityInv'
<1>1. /\ UNCHANGED <<planningVars, fingerprints, verifications, batchReports, readiness,
                     verifying, checking>>
      /\ id \in DOMAIN readiness
  BY DEF PlanReplayRun
<1>2. PICK x : PlannedHolds(x) /\ manifests' = Saved(manifests, m, x)
  <2>1. PICK now \in Times :
            \/ /\ readiness[id].status = "READY"
               /\ ReadyBatch(readiness[id]) /\ Plannable(readiness[id])
               /\ manifests' = Saved(manifests, m, ManifestOf(id, "PLANNED", now))
            \/ manifests' = Saved(manifests, m, ManifestOf(id, "BLOCKED", now))
    BY DEF PlanReplayRun
  <2>2. PlannedHolds(ManifestOf(id, "BLOCKED", now))
    BY DEF PlannedHolds, ManifestOf
  <2> QED
    BY <1>1, <2>1, <2>2, PlannedMade
<1>3. \A i \in DOMAIN manifests' :
        \/ i \in DOMAIN manifests /\ manifests'[i] = manifests[i]
        \/ PlannedHolds(manifests'[i])
  <2>1. /\ Grows(manifests, manifests')
        /\ \A i \in DOMAIN manifests' : i \in DOMAIN manifests \/ manifests'[i] = x
    BY <1>2, SavedGrows
  <2> QED
    BY <1>2, <2>1 DEF Grows
<1> QED
  BY <1>1, <1>3, Same, CallKeeps

LEMMA IntegrityStep == IntegrityInv /\ [Next]_vars => IntegrityInv'
<1> SUFFICES ASSUME IntegrityInv, [Next]_vars PROVE IntegrityInv'
  OBVIOUS
<1>1. CASE PlanningNext /\ UNCHANGED integrityVars
  <2>1. UNCHANGED reports \/ \E t, x : \E r \in ReportIds : GenerateReport(r, t, x)
    <3>1. CASE TimelineNext \/ CursorNext
      BY <3>1 DEF TimelineNext, CursorNext, RegisterInputDataset, CreateInputBatch,
         BuildTimeline, CreateCursor, AdvanceCursor, CompleteCursor, InvalidateCursor, Loaded,
         SaveCursor, auditVars
    <3>2. CASE AuditNext
      BY <3>2 DEF AuditNext, GenerateDiff, Free
    <3> QED
      BY <1>1, <3>1, <3>2 DEF PlanningNext
  <2> QED
    BY <1>1, <2>1, PlanningKeeps DEF integrityVars
<1>2. CASE IntegrityNext
  <2>1. CASE \E f \in Free(FingerprintIds, fingerprints) :
                \/ \E id \in TimelineIds : FingerprintArtifact(f, "TIMELINE", id)
                \/ \E id \in ReportIds : FingerprintArtifact(f, "COVERAGE_REPORT", id)
                \/ \E id \in DiffIds : FingerprintArtifact(f, "COVERAGE_DIFF", id)
    BY <2>1, FingerprintKeeps DEF Free
  <2>2. CASE \E v \in Free(BatchReportIds \X FingerprintIds, verifications) :
                VerifyFingerprint(v[1], v[2])
    BY <2>2, VerifyFingerprintKeeps
  <2>3. CASE \/ \E b \in Free(BatchReportIds, batchReports), ids \in FingerprintLists :
                    VerifyBatch(b, None, ids)
             \/ \E b \in Free(BatchReportIds, batchReports), plan \in DOMAIN PlanStore :
                    VerifyBatch(b, plan, PlanFingerprints(plan))
    BY <2>3, VerifyBatchKeeps DEF Free
  <2>4. CASE BatchFails
    <3>1. /\ UNCHANGED <<planningVars, fingerprints, verifications, batchReports, readiness,
                         manifests, checking>>
          /\ verifying' = NotVerifying
      BY <2>4 DEF BatchFails
    <3>2. VerifyingHolds'
      BY <3>1 DEF VerifyingHolds, NotVerifying
    <3> QED
      BY <3>1, <3>2, Same, CallKeeps
  <2>5. CASE \E t \in TimelineIds : LoseTimeline(t)
    <3>1. UNCHANGED <<reports, fingerprints, verifications, batchReports, readiness,
                      manifests, verifying, checking>>
      BY <2>5 DEF LoseTimeline, auditVars
    <3> QED
      BY <3>1, PlanningKeeps
  <2> QED
    BY <1>2, <2>1, <2>2, <2>3, <2>4, <2>5, VerifyNextKeeps, FinishBatchKeeps,
       CheckReplayPlanKeeps, ReadBatchReportsKeeps, SaveReadinessKeeps, PlanReplayRunKeeps
    DEF IntegrityNext
<1>3. CASE UNCHANGED vars
  <2>1. UNCHANGED <<reports, fingerprints, verifications, batchReports, readiness,
                    manifests, verifying, checking>>
    BY <1>3 DEF vars, planningVars, integrityVars
  <2> QED
    BY <2>1, PlanningKeeps
<1> QED
  BY <1>1, <1>2, <1>3 DEF Next

\* The inductive invariant: a VALID item of a batch report rests on a stored
\* verification of the fingerprinted artifact, a READY report on a stored
\* coverage report, a PLANNED manifest on both, and none of these is ever
\* changed (the save of the in-memory stores of replay/in_memory.py).
THEOREM IntegrityInductive == Spec => []IntegrityInv
BY IntegrityStart, IntegrityStep, PTL DEF Spec

\* A PLANNED manifest lists fingerprints of its plan, each found VALID against
\* an artifact equal to the one fingerprinted, and the plan had a coverage
\* report without errors, however artifacts, fingerprints, batches and
\* timelines came and went between the calls (plan_replay_run).
THEOREM PlannedVerified == Spec => []PlannedIsVerified
<1>1. IntegrityInv => PlannedIsVerified
  BY DEF IntegrityInv, ManifestsHold, PlannedHolds, Covered, PlannedIsVerified
<1> QED
  BY <1>1, IntegrityInductive, PTL

LEMMA ReportIsConstructible == IntegrityInv => ReadinessConstructible
<1> SUFFICES ASSUME IntegrityInv, checking # NotChecking, checking.read
             PROVE  ValidReadiness(ReadinessOf(checking, 0))
  BY DEF ReadinessConstructible
<1> DEFINE count == checking.count
           batch == checking.batch
           issues == ReadinessIssues(checking.plan, count, batch)
           r == ReadinessOf(checking, 0)
<1>1. /\ r.status = ReadinessStatus(issues, count, batch) /\ r.issues = issues
      /\ r.total_fingerprints = count /\ r.batch = batch
  BY DEF ReadinessOf
<1>2. count \in Nat /\ (batch = None \/ batch \in DOMAIN batchReports)
  BY DEF IntegrityInv, CheckingHolds
<1>3. CASE r.status = "READY"
  <2>1. /\ count # 0 /\ batch # None /\ AllValid(batchReports[batch])
        /\ Total(batchReports[batch]) = count /\ issues = {}
    BY <1>1, <1>3, ReadyMeans
  <2>2. ItemsHold(batch, batchReports[batch].items)
    BY <1>2, <2>1 DEF IntegrityInv, BatchesHold
  <2>3. NoIssues(batchReports[batch])
    BY <2>1, <2>2, AllAreValid DEF ItemsHold, NoIssues, IssueCount
  <2> HIDE DEF issues, r
  <2> QED
    BY <1>1, <1>2, <1>3, <2>1, <2>3 DEF ValidReadiness, r
<1>4. CASE r.status = "WARNING"
  <2> HIDE DEF issues
  <2>1. Has(issues, "WARNING") /\ ~Has(issues, "ERROR")
    BY <1>1, <1>4 DEF ReadinessStatus
  <2> HIDE DEF r
  <2> QED
    BY <1>1, <1>4, <2>1 DEF ValidReadiness, r
<1>5. CASE r.status = "BLOCKED"
  <2>1. Has(issues, "ERROR")
    <3> SUFFICES ASSUME ~Has(issues, "ERROR") PROVE FALSE
      OBVIOUS
    <3>1. count # 0 /\ batch # None
      BY DEF ReadinessIssues, Has, Item
    <3>2. \A x \in BatchIssues(count, batch) : x.severity = "ERROR"
      BY DEF BatchIssues, When, Item
    <3>3. BatchIssues(count, batch) = {}
      BY <3>1, <3>2 DEF ReadinessIssues, Has
    <3>4. Total(batchReports[batch]) = count
          /\ (AllValid(batchReports[batch]) \/ ~(Total(batchReports[batch]) > 0))
      BY <3>3 DEF BatchIssues, When
    <3>5. count > 0 /\ AllValid(batchReports[batch])
      BY <1>2, <3>1, <3>4
    <3> HIDE DEF issues
    <3> QED
      BY <1>1, <1>5, <3>1, <3>5 DEF ReadinessStatus
  <2> HIDE DEF issues, r
  <2> QED
    BY <1>1, <1>5, <2>1 DEF ValidReadiness, r
<1>6. r.status \in {"READY", "WARNING", "BLOCKED"}
  BY <1>1 DEF ReadinessStatus
<1> QED
  BY <1>3, <1>4, <1>5, <1>6

\* Whatever was saved between its reads, the report the checker makes passes
\* its own validator, and the last BLOCKED, that has no issue to show for it,
\* is never reached (check_replay_plan, _determine_readiness_status).
THEOREM AlwaysConstructible == Spec => []ReadinessConstructible
BY IntegrityInductive, ReportIsConstructible, PTL

-----------------------------------------------------------------------------
(* Cursors, while no timeline is lost: a timeline built again under the id  *)
(* of a lost one may have another number of events than a cursor that was   *)
(* loaded before stands for.                                                *)

NoLoss == losses = 0

\* What a cursor that stands in its timeline looks like.
CursorFits(k) ==
    /\ k = [timeline_id |-> k.timeline_id, status |-> k.status,
            next_order_index |-> k.next_order_index, updated_at |-> k.updated_at]
    /\ k.timeline_id \in DOMAIN timelines
    /\ k.status \in {"CREATED", "ADVANCED", "COMPLETED", "INVALIDATED"}
    /\ k.next_order_index \in Nat
    /\ k.status = "CREATED" => k.next_order_index = 0
    /\ k.status = "ADVANCED" => k.next_order_index <= Len(timelines[k.timeline_id].events)
    /\ k.status = "COMPLETED" => k.next_order_index = Len(timelines[k.timeline_id].events)

\* What a caller is about to save was made from the cursor it saves over.
MoveFits(m) ==
    /\ m = [cursor |-> m.cursor, value |-> m.value]
    /\ m.cursor \in DOMAIN cursors
    /\ CursorFits(m.value) /\ m.value.status # "CREATED"
    /\ m.value.timeline_id = cursors[m.cursor].timeline_id

CursorInv ==
    /\ \A id \in DOMAIN cursors : CursorFits(cursors[id])
    /\ moving = [c \in Callers |-> moving[c]]
    /\ \A c \in Callers : moving[c] = Idle \/ MoveFits(moving[c])

LEMMA CursorStart == Init => CursorInv
BY DEF Init, PlanningInit, CursorInv, Nothing

\* Timelines grow, cursors stay or move within theirs, and moves stay.
LEMMA CursorStays ==
    ASSUME CursorInv, Grows(timelines, timelines'), UNCHANGED cursorVars
    PROVE  CursorInv'
<1>1. \A k : CursorFits(k) => CursorFits(k)'
  BY DEF CursorFits, Grows
<1>2. \A m : MoveFits(m) => MoveFits(m)'
  BY <1>1 DEF MoveFits, cursorVars
<1> QED
  BY <1>1, <1>2 DEF CursorInv, cursorVars

LEMMA CreateCursorKeeps ==
    ASSUME CursorInv, NEW id, NEW t, CreateCursor(id, t)
    PROVE  CursorInv' /\ MovesCursorsForward
<1>1. t \in DOMAIN timelines /\ timelines' = timelines /\ moving' = moving
  BY DEF CreateCursor
<1>2. PICK k : CursorFits(k) /\ cursors' = Saved(cursors, id, k)
  <2>1. PICK now \in Times : cursors' = Saved(cursors, id,
            [timeline_id |-> t, status |-> "CREATED", next_order_index |-> 0,
             updated_at |-> now])
    BY DEF CreateCursor
  <2> DEFINE k == [timeline_id |-> t, status |-> "CREATED", next_order_index |-> 0,
                   updated_at |-> now]
  <2>2. CursorFits(k)
    BY <1>1 DEF CursorFits
  <2> QED
    BY <2>1, <2>2
<1>3. /\ Grows(cursors, cursors')
      /\ \A i \in DOMAIN cursors' : i \in DOMAIN cursors \/ cursors'[i] = k
  BY <1>2, SavedGrows
<1>4. \A i \in DOMAIN cursors' : CursorFits(cursors'[i])
  BY <1>2, <1>3 DEF CursorInv, Grows
<1>5. \A m : MoveFits(m) => MoveFits(m)'
  BY <1>1, <1>3 DEF MoveFits, CursorFits, Grows
<1>6. CursorInv'
  BY <1>1, <1>4, <1>5 DEF CursorInv, CursorFits
<1>7. MovesCursorsForward
  BY <1>3 DEF MovesCursorsForward, Grows
<1> QED
  BY <1>6, <1>7

\* A call that loads a cursor makes a move that fits.
LEMMA LoadedKeeps ==
    ASSUME CursorInv, NEW c \in Callers, NEW id, NEW status, NEW next,
           Loaded(c, id, status, next), next \in Nat,
           status \in {"ADVANCED", "COMPLETED", "INVALIDATED"},
           status = "ADVANCED" => \A n \in EventCount(id) : next <= n,
           status = "COMPLETED" => \A n \in EventCount(id) : next = n
    PROVE  CursorInv'
<1>1. UNCHANGED <<timelines, cursors>> /\ id \in DOMAIN cursors
  BY DEF Loaded
<1>2. PICK now \in Times :
        moving' = [moving EXCEPT ![c] =
            [cursor |-> id,
             value |-> [timeline_id |-> cursors[id].timeline_id, status |-> status,
                        next_order_index |-> next, updated_at |-> now]]]
  BY DEF Loaded
<1> DEFINE k == cursors[id]
           value == [timeline_id |-> k.timeline_id, status |-> status,
                     next_order_index |-> next, updated_at |-> now]
           m == [cursor |-> id, value |-> value]
<1>3. CursorFits(k)
  BY <1>1 DEF CursorInv
<1>4. Len(timelines[k.timeline_id].events) \in EventCount(id)
  BY <1>3 DEF CursorFits, EventCount
<1>5. CursorFits(value)
  <2> HIDE DEF k
  <2> QED
    BY <1>3, <1>4 DEF CursorFits
<1>6. MoveFits(m)
  BY <1>1, <1>5 DEF MoveFits
<1> HIDE DEF m
<1>7. moving' = [moving EXCEPT ![c] = m]
  BY <1>2 DEF m, value
<1>8. \A d \in Callers : moving'[d] = Idle \/ MoveFits(moving'[d])
  BY <1>6, <1>7 DEF CursorInv
<1>9. moving' = [d \in Callers |-> moving'[d]]
  BY <1>7 DEF CursorInv
<1> QED
  BY <1>1, <1>8, <1>9 DEF CursorInv, CursorFits, MoveFits

LEMMA SaveCursorKeeps ==
    ASSUME CursorInv, NEW c \in Callers, SaveCursor(c)
    PROVE  CursorInv' /\ MovesCursorsForward
<1> DEFINE m == moving[c]
           old == cursors[m.cursor]
           new == m.value
<1>1. /\ UNCHANGED timelines /\ moving' = [moving EXCEPT ![c] = Idle] /\ m # Idle
      /\ cursors' = IF StoresCursor(old, new) THEN [cursors EXCEPT ![m.cursor] = new]
                    ELSE cursors
  BY DEF SaveCursor
<1>2. MoveFits(m)
  BY <1>1 DEF CursorInv
<1>3. /\ m.cursor \in DOMAIN cursors /\ CursorFits(new) /\ new.status # "CREATED"
      /\ new.timeline_id = old.timeline_id
  BY <1>2 DEF MoveFits
<1>4. CursorFits(old)
  BY <1>3 DEF CursorInv
<1>5. /\ DOMAIN cursors' = DOMAIN cursors
      /\ \A i \in DOMAIN cursors :
            \/ cursors'[i] = cursors[i]
            \/ i = m.cursor /\ cursors'[i] = new /\ StoresCursor(old, new)
  BY <1>1
<1>6. CursorInv'
  <2>1. \A i \in DOMAIN cursors' : CursorFits(cursors'[i])
    BY <1>3, <1>5 DEF CursorInv
  <2>2. \A i \in DOMAIN cursors : cursors'[i].timeline_id = cursors[i].timeline_id
    BY <1>3, <1>5
  <2>3. \A x : MoveFits(x) => MoveFits(x)'
    BY <1>1, <1>5, <2>2 DEF MoveFits, CursorFits
  <2>4. \A d \in Callers : moving'[d] = Idle \/ moving'[d] = moving[d]
    BY <1>1 DEF CursorInv
  <2>5. moving' = [d \in Callers |-> moving'[d]]
    BY <1>1 DEF CursorInv
  <2>6. \A d \in Callers : moving'[d] = Idle \/ MoveFits(moving'[d])
    BY <2>4 DEF CursorInv
  <2> QED
    BY <1>1, <2>1, <2>3, <2>5, <2>6 DEF CursorInv, CursorFits
<1>7. MovesCursorsForward
  <2> HIDE DEF old, new
  <2> SUFFICES ASSUME StoresCursor(old, new)
               PROVE  /\ new.next_order_index < old.next_order_index => new.status = "INVALIDATED"
                      /\ new.status = "COMPLETED" => {new.next_order_index} = EventCount(m.cursor)
                      /\ old.status = "COMPLETED" => new.status = "INVALIDATED"
                      /\ old.status # "INVALIDATED"
    BY <1>5 DEF MovesCursorsForward, old
  <2>1. /\ new.status \in CursorTransitions[old.status]
        /\ old.status = "ADVANCED" /\ new.status = "ADVANCED" =>
                old.next_order_index <= new.next_order_index
    BY DEF StoresCursor
  <2>2. EventCount(m.cursor) = {Len(timelines[old.timeline_id].events)}
    BY <1>4 DEF EventCount, CursorFits, old
  <2> QED
    BY <1>3, <1>4, <2>1, <2>2 DEF CursorFits, CursorTransitions
<1> QED
  BY <1>6, <1>7

LEMMA CursorStep ==
    ASSUME CursorInv, NoLoss, NoLoss', [Next]_vars
    PROVE  CursorInv' /\ [MovesCursorsForward]_cursors
<1>1. CASE CursorNext
  <2>1. CASE \E id \in Free(CursorIds, cursors), t \in TimelineIds : CreateCursor(id, t)
    BY <2>1, CreateCursorKeeps
  <2>2. CASE \E c \in Callers, id \in CursorIds, next \in 0 .. MaxEvents :
                AdvanceCursor(c, id, next) \/ CompleteCursor(c, id, next)
    <3>1. PICK c \in Callers, id \in CursorIds, next \in 0 .. MaxEvents :
            AdvanceCursor(c, id, next) \/ CompleteCursor(c, id, next)
      BY <2>2
    <3>2. next \in Nat
      BY <3>1, NumbersAssumption
    <3>3. CursorInv'
      BY <3>1, <3>2, LoadedKeeps DEF AdvanceCursor, CompleteCursor
    <3>4. UNCHANGED cursors
      BY <3>1 DEF AdvanceCursor, CompleteCursor, Loaded
    <3> QED
      BY <3>3, <3>4
  <2>3. CASE \E c \in Callers, id \in CursorIds : InvalidateCursor(c, id)
    <3>1. PICK c \in Callers, id \in CursorIds : InvalidateCursor(c, id)
      BY <2>3
    <3>2. cursors[id].next_order_index \in Nat
      BY <3>1 DEF InvalidateCursor, CursorInv, CursorFits
    <3>3. CursorInv'
      BY <3>1, <3>2, LoadedKeeps DEF InvalidateCursor
    <3>4. UNCHANGED cursors
      BY <3>1 DEF InvalidateCursor, Loaded
    <3> QED
      BY <3>3, <3>4
  <2>4. CASE \E c \in Callers : SaveCursor(c)
    BY <2>4, SaveCursorKeeps
  <2> QED
    BY <1>1, <2>1, <2>2, <2>3, <2>4 DEF CursorNext
<1>2. CASE ~CursorNext
  <2>1. UNCHANGED cursorVars /\ Grows(timelines, timelines')
    <3>1. CASE TimelineNext
      <4>1. UNCHANGED cursorVars
        BY <3>1 DEF TimelineNext, RegisterInputDataset, CreateInputBatch, BuildTimeline
      <4>2. UNCHANGED timelines \/ \E id, t : timelines' = Saved(timelines, id, t)
        BY <3>1 DEF TimelineNext, RegisterInputDataset, CreateInputBatch, BuildTimeline
      <4>3. ASSUME NEW id, NEW t, timelines' = Saved(timelines, id, t)
            PROVE  Grows(timelines, timelines')
        BY <4>3, SavedGrows
      <4> QED
        BY <4>1, <4>2, <4>3, Same
    <3>2. CASE AuditNext
      BY <3>2, Same DEF AuditNext, GenerateReport, GenerateDiff
    <3>3. CASE IntegrityNext
      <4>1. CASE \E t \in TimelineIds : LoseTimeline(t)
        BY <4>1 DEF LoseTimeline, NoLoss
      <4>2. CASE ~ \E t \in TimelineIds : LoseTimeline(t)
        <5>1. UNCHANGED planningVars
          BY <3>3, <4>2 DEF IntegrityNext, FingerprintArtifact, VerifyFingerprint, VerifyBatch,
             VerifyNext, FinishBatch, BatchFails, CheckReplayPlan, ReadBatchReports,
             SaveReadiness, PlanReplayRun
        <5> QED
          BY <5>1, Same DEF planningVars, cursorVars
      <4> QED
        BY <4>1, <4>2
    <3>4. CASE UNCHANGED vars
      BY <3>4, Same DEF vars, planningVars, cursorVars
    <3> QED
      BY <1>2, <3>1, <3>2, <3>3, <3>4 DEF Next, PlanningNext
  <2> QED
    BY <2>1, CursorStays DEF cursorVars
<1> QED
  BY <1>1, <1>2

\* While no timeline is lost, a cursor never moves back except by being
\* invalidated, is COMPLETED only at the end of its timeline and leaves it
\* only to INVALIDATED, which is final, whoever saves which stale cursor
\* (InMemoryReplayTimelineCursorStore.save, advance_cursor, complete_cursor).
THEOREM CursorsMoveForward == Spec /\ []NoLoss => CursorForward
<1>1. CursorInv /\ NoLoss /\ NoLoss' /\ [Next]_vars => CursorInv' /\ [MovesCursorsForward]_cursors
  BY CursorStep
<1> QED
  BY <1>1, CursorStart, PTL DEF Spec, CursorForward

-----------------------------------------------------------------------------
(* Concatenations.                                                          *)

\* The concatenation of lists as a function of how many of them it takes.
Joins(seqs, n, f) ==
    f = [i \in 1 .. n |-> IF i = 1 THEN seqs[i] ELSE f[i - 1] \o seqs[i]]

LEMMA JoinExists ==
    ASSUME NEW seqs, NEW n \in Nat
    PROVE  \E f : Joins(seqs, n, f)
<1> DEFINE Bad == {k \in Nat : ~ \E f : Joins(seqs, k, f)}
<1> SUFFICES ASSUME Bad # {} PROVE FALSE
  OBVIOUS
<1>1. PICK k \in Bad : \A l \in Bad : k <= l
  <2> HIDE DEF Bad
  <2>1. Bad \subseteq Nat
    BY DEF Bad
  <2> QED
    BY <2>1, LeastNumber
<1>2. CASE k = 0
  <2>1. Joins(seqs, 0, [i \in 1 .. 0 |-> i])
    BY DEF Joins
  <2> QED
    BY <1>2, <2>1
<1>3. CASE k # 0
  <2>1. k - 1 \in Nat /\ k - 1 \notin Bad
    BY <1>1, <1>3
  <2>2. PICK f : Joins(seqs, k - 1, f)
    BY <2>1
  <2> DEFINE g == [i \in 1 .. k |-> IF i < k THEN f[i]
                                    ELSE IF i = 1 THEN seqs[i] ELSE f[i - 1] \o seqs[i]]
  <2>3. ASSUME NEW i \in 1 .. k
        PROVE  g[i] = IF i = 1 THEN seqs[i] ELSE g[i - 1] \o seqs[i]
    <3>1. CASE i < k
      <4>1. i \in 1 .. k - 1 /\ (i = 1 \/ (i - 1 \in 1 .. k /\ i - 1 < k))
        BY <1>3, <3>1
      <4>2. f[i] = IF i = 1 THEN seqs[i] ELSE f[i - 1] \o seqs[i]
        BY <2>2, <4>1 DEF Joins
      <4>3. g[i] = f[i] /\ (i = 1 \/ g[i - 1] = f[i - 1])
        BY <3>1, <4>1
      <4> HIDE DEF g
      <4> QED
        BY <4>2, <4>3
    <3>2. CASE i = k
      <4>1. g[i] = IF i = 1 THEN seqs[i] ELSE f[i - 1] \o seqs[i]
        BY <3>2
      <4>2. i = 1 \/ (i - 1 \in 1 .. k /\ i - 1 < k)
        BY <1>3, <3>2
      <4>3. i = 1 \/ g[i - 1] = f[i - 1]
        BY <4>2
      <4> HIDE DEF g
      <4> QED
        BY <4>1, <4>3
    <3> QED
      BY <3>1, <3>2
  <2>4. Joins(seqs, k, g)
    <3>1. g = [i \in 1 .. k |-> g[i]]
      OBVIOUS
    <3> HIDE DEF g
    <3> QED
      BY <2>3, <3>1 DEF Joins
  <2> QED
    BY <2>4
<1> QED
  BY <1>2, <1>3

LEMMA FlattenIs ==
    ASSUME NEW seqs, Len(seqs) \in Nat, Len(seqs) # 0
    PROVE  \E f : Joins(seqs, Len(seqs), f) /\ FlattenSeq(seqs) = f[Len(seqs)]
<1> DEFINE f == CHOOSE f : Joins(seqs, Len(seqs), f)
<1>1. Joins(seqs, Len(seqs), f)
  BY JoinExists
<1>2. FlattenSeq(seqs) = f[Len(seqs)]
  BY DEF FlattenSeq, Joins
<1> QED
  BY <1>1, <1>2

\* A concatenation holds what its parts hold.
LEMMA Flattened ==
    ASSUME NEW S, NEW n \in Nat, NEW seqs \in [1 .. n -> Seq(S)]
    PROVE  /\ FlattenSeq(seqs) \in Seq(S)
           /\ \A e : e \in Range(FlattenSeq(seqs)) <=> \E i \in 1 .. n : e \in Range(seqs[i])
<1>1. Len(seqs) = n
  OBVIOUS
<1>2. CASE n = 0
  <2>1. seqs = << >> /\ 1 .. n = {}
    BY <1>2
  <2>2. FlattenSeq(seqs) = seqs
    BY <1>1, <1>2 DEF FlattenSeq
  <2>3. << >> \in Seq(S) /\ Range(<< >>) = {}
    BY EmptySeq DEF Range
  <2> QED
    BY <2>1, <2>2, <2>3
<1>3. CASE n # 0
  <2>1. PICK f : Joins(seqs, n, f) /\ FlattenSeq(seqs) = f[n]
    BY <1>1, <1>3, FlattenIs
  <2> DEFINE Good(k) == /\ f[k] \in Seq(S)
                        /\ \A e : e \in Range(f[k]) <=> \E i \in 1 .. k : e \in Range(seqs[i])
             Bad == {k \in 1 .. n : ~Good(k)}
  <2>2. CASE Bad = {}
    <3>1. n \in 1 .. n
      BY <1>3
    <3>2. Good(n)
      BY <2>2, <3>1
    <3> QED
      BY <2>1, <3>2
  <2>3. CASE Bad # {}
    <3>1. PICK k \in Bad : \A l \in Bad : k <= l
      <4> HIDE DEF Bad
      <4>1. Bad \subseteq Nat
        BY DEF Bad
      <4> QED
        BY <2>3, <4>1, LeastNumber
    <3>2. k \in 1 .. n /\ ~Good(k)
      BY <3>1
    <3>3. f[k] = IF k = 1 THEN seqs[k] ELSE f[k - 1] \o seqs[k]
      BY <2>1, <3>2 DEF Joins
    <3>4. CASE k = 1
      <4>1. 1 .. k = {1} /\ f[k] = seqs[1] /\ seqs[1] \in Seq(S)
        BY <3>2, <3>3, <3>4
      <4> QED
        BY <3>2, <4>1
    <3>5. CASE k # 1
      <4>1. k - 1 \in 1 .. n /\ k - 1 \notin Bad
        <5>1. k - 1 \in 1 .. n /\ ~(k <= k - 1)
          BY <3>2, <3>5
        <5> HIDE DEF Bad
        <5> QED
          BY <3>1, <5>1
      <4>2. Good(k - 1) /\ seqs[k] \in Seq(S)
        BY <3>2, <4>1
      <4>3. f[k] \in Seq(S) /\ Range(f[k]) = Range(f[k - 1]) \cup Range(seqs[k])
        BY <3>3, <3>5, <4>2, ConcatProperties, RangeConcatenation
      <4>4. 1 .. k = (1 .. k - 1) \cup {k}
        BY <3>2
      <4>5. \A e : e \in Range(f[k]) <=> \E i \in 1 .. k : e \in Range(seqs[i])
        BY <4>2, <4>3, <4>4
      <4> QED
        BY <3>2, <4>3, <4>5
    <3> QED
      BY <3>4, <3>5
  <2> QED
    BY <2>2, <2>3
<1> QED
  BY <1>2, <1>3

-----------------------------------------------------------------------------
(* Sort keys.                                                               *)

Keys(n) == [1 .. n -> Int]

\* Two keys that differ are in one order or the other, at their first difference.
LEMMA FirstDifference ==
    ASSUME NEW n \in Nat, NEW k \in Keys(n), NEW l \in Keys(n), k # l
    PROVE  \E i \in 1 .. n : k[i] # l[i] /\ \A j \in 1 .. i - 1 : k[j] = l[j]
<1> DEFINE Differ == {i \in 1 .. n : k[i] # l[i]}
<1>1. Differ # {} /\ Differ \subseteq Nat
  BY DEF Keys
<1>2. PICK i \in Differ : \A j \in Differ : i <= j
  <2> HIDE DEF Differ
  <2> QED
    BY <1>1, LeastNumber
<1>3. \A j \in 1 .. i - 1 : j \in 1 .. n /\ j \notin Differ
  BY <1>2
<1> QED
  BY <1>2, <1>3

BeforeOn(n) == {p \in Keys(n) \X Keys(n) : Before(p[1], p[2])}

LEMMA KeysOrdered == ASSUME NEW n \in Nat PROVE StrictOrder(BeforeOn(n), Keys(n))
<1>1. ASSUME NEW k \in Keys(n), NEW l \in Keys(n)
      PROVE  <<k, l>> \in BeforeOn(n) <=>
                \E i \in 1 .. n : k[i] < l[i] /\ \A j \in 1 .. i - 1 : k[j] = l[j]
  <2>1. DOMAIN k = 1 .. n
    BY DEF Keys
  <2> QED
    BY <2>1 DEF BeforeOn, Before
<1>2. \A k \in Keys(n) : \A i \in 1 .. n : k[i] \in Int
  BY DEF Keys
<1>3. ASSUME NEW k \in Keys(n) PROVE <<k, k>> \notin BeforeOn(n)
  BY <1>1, <1>2
<1>4. ASSUME NEW a \in Keys(n), NEW b \in Keys(n), NEW c \in Keys(n),
             <<a, b>> \in BeforeOn(n), <<b, c>> \in BeforeOn(n)
      PROVE  <<a, c>> \in BeforeOn(n)
  <2>1. PICK i \in 1 .. n : a[i] < b[i] /\ \A j \in 1 .. i - 1 : a[j] = b[j]
    BY <1>1, <1>4
  <2>2. PICK j \in 1 .. n : b[j] < c[j] /\ \A m \in 1 .. j - 1 : b[m] = c[m]
    BY <1>1, <1>4
  <2>3. \A m \in 1 .. n : a[m] \in Int /\ b[m] \in Int /\ c[m] \in Int
    BY <1>2
  <2>4. CASE i <= j
    <3>1. a[i] < c[i]
      BY <2>1, <2>2, <2>3, <2>4
    <3>2. \A m \in 1 .. i - 1 : a[m] = c[m]
      BY <2>1, <2>2, <2>4
    <3> QED
      BY <1>1, <3>1, <3>2
  <2>5. CASE j < i
    <3>1. a[j] < c[j]
      BY <2>1, <2>2, <2>3, <2>5
    <3>2. \A m \in 1 .. j - 1 : a[m] = c[m]
      BY <2>1, <2>2, <2>5
    <3> QED
      BY <1>1, <3>1, <3>2
  <2> QED
    BY <2>4, <2>5
<1>5. ASSUME NEW k \in Keys(n), NEW l \in Keys(n), k # l
      PROVE  <<k, l>> \in BeforeOn(n) \/ <<l, k>> \in BeforeOn(n)
  <2>1. PICK i \in 1 .. n : k[i] # l[i] /\ \A j \in 1 .. i - 1 : k[j] = l[j]
    BY <1>5, FirstDifference
  <2>2. k[i] < l[i] \/ l[i] < k[i]
    BY <1>2, <2>1
  <2> QED
    BY <1>1, <2>1, <2>2
<1> QED
  BY <1>3, <1>4, <1>5 DEF StrictOrder

WellTyped(e) == {e.event_time, e.kind, e.source_sequence, e.batch_id, e.record_id} \subseteq Int

KeySize(policy) == IF policy = "EVENT_TIME_THEN_SEQUENCE" THEN 4 ELSE 5

\* The key of an event ends in what identifies it.
LEMMA KeyOfEvent ==
    ASSUME NEW policy, NEW e, WellTyped(e)
    PROVE  LET n == KeySize(policy)
               k == EventKey(policy, e)
           IN  k \in Keys(n) /\ n \in Nat /\ n > 1 /\ k[n - 1] = e.batch_id /\ k[n] = e.record_id
<1> DEFINE b == e.batch_id
           r == e.record_id
           t == e.event_time
           q == e.source_sequence
           d == e.kind
<1>1. b \in Int /\ r \in Int /\ t \in Int /\ q \in Int /\ d \in Int
  BY DEF WellTyped
<1>2. CASE policy = "EVENT_TIME_THEN_SEQUENCE"
  <2>1. EventKey(policy, e) = <<t, q>> \o <<b, r>> /\ KeySize(policy) = 4
    BY <1>2 DEF EventKey, RecordKey, KeySize
  <2> HIDE DEF b, r, t, q
  <2>2. <<t, q>> \o <<b, r>> = <<t, q, b, r>>
    <3>1. <<t, q>> \in Seq(Int) /\ <<b, r>> \in Seq(Int) /\ <<t, q, b, r>> \in Seq(Int)
      BY <1>1
    <3>2. Len(<<t, q>>) = 2 /\ Len(<<b, r>>) = 2 /\ Len(<<t, q, b, r>>) = 4
      OBVIOUS
    <3>3. /\ <<t, q>> \o <<b, r>> \in Seq(Int) /\ Len(<<t, q>> \o <<b, r>>) = 4
          /\ \A i \in 1 .. 4 : (<<t, q>> \o <<b, r>>)[i] =
                IF i <= 2 THEN <<t, q>>[i] ELSE <<b, r>>[i - 2]
      BY <3>1, <3>2, ConcatProperties
    <3>4. \A i \in 1 .. 4 : <<t, q, b, r>>[i] =
                IF i <= 2 THEN <<t, q>>[i] ELSE <<b, r>>[i - 2]
      OBVIOUS
    <3> DEFINE joined == <<t, q>> \o <<b, r>>
               whole == <<t, q, b, r>>
    <3>5. /\ joined \in Seq(Int) /\ whole \in Seq(Int) /\ Len(joined) = Len(whole)
          /\ \A i \in 1 .. Len(joined) : joined[i] = whole[i]
      BY <3>1, <3>2, <3>3, <3>4
    <3> HIDE DEF joined, whole
    <3>6. joined = whole
      BY <3>5, SeqEqual
    <3> QED
      BY <3>6 DEF joined, whole
  <2>3. <<t, q, b, r>> \in [1 .. 4 -> Int]
    BY <1>1
  <2> QED
    BY <2>1, <2>2, <2>3 DEF Keys, b, r
<1>3. CASE policy # "EVENT_TIME_THEN_SEQUENCE"
  <2>1. EventKey(policy, e) = <<t, d, q>> \o <<b, r>> /\ KeySize(policy) = 5
    BY <1>3 DEF EventKey, RecordKey, KeySize
  <2> HIDE DEF b, r, t, q, d
  <2>2. <<t, d, q>> \o <<b, r>> = <<t, d, q, b, r>>
    <3>1. <<t, d, q>> \in Seq(Int) /\ <<b, r>> \in Seq(Int) /\ <<t, d, q, b, r>> \in Seq(Int)
      BY <1>1
    <3>2. Len(<<t, d, q>>) = 3 /\ Len(<<b, r>>) = 2 /\ Len(<<t, d, q, b, r>>) = 5
      OBVIOUS
    <3>3. /\ <<t, d, q>> \o <<b, r>> \in Seq(Int) /\ Len(<<t, d, q>> \o <<b, r>>) = 5
          /\ \A i \in 1 .. 5 : (<<t, d, q>> \o <<b, r>>)[i] =
                IF i <= 3 THEN <<t, d, q>>[i] ELSE <<b, r>>[i - 3]
      BY <3>1, <3>2, ConcatProperties
    <3>4. \A i \in 1 .. 5 : <<t, d, q, b, r>>[i] =
                IF i <= 3 THEN <<t, d, q>>[i] ELSE <<b, r>>[i - 3]
      OBVIOUS
    <3> DEFINE joined == <<t, d, q>> \o <<b, r>>
               whole == <<t, d, q, b, r>>
    <3>5. /\ joined \in Seq(Int) /\ whole \in Seq(Int) /\ Len(joined) = Len(whole)
          /\ \A i \in 1 .. Len(joined) : joined[i] = whole[i]
      BY <3>1, <3>2, <3>3, <3>4
    <3> HIDE DEF joined, whole
    <3>6. joined = whole
      BY <3>5, SeqEqual
    <3> QED
      BY <3>6 DEF joined, whole
  <2>3. <<t, d, q, b, r>> \in [1 .. 5 -> Int]
    BY <1>1
  <2> QED
    BY <2>1, <2>2, <2>3 DEF Keys, b, r
<1> QED
  BY <1>2, <1>3

\* Events whose keys are the same are the same record of the same batch.
LEMMA EventsOrdered ==
    ASSUME NEW policy, NEW d, WellTyped(d), NEW e, WellTyped(e)
    PROVE  LET k == EventKey(policy, d)
               l == EventKey(policy, e)
           IN  /\ ~(Before(k, l) /\ Before(l, k)) /\ ~Before(k, k)
               /\ Before(k, l) \/ Before(l, k) \/ k = l
               /\ k = l => d.batch_id = e.batch_id /\ d.record_id = e.record_id
<1> DEFINE n == KeySize(policy)
           k == EventKey(policy, d)
           l == EventKey(policy, e)
<1>1. /\ k \in Keys(n) /\ l \in Keys(n) /\ n \in Nat
      /\ k[n - 1] = d.batch_id /\ k[n] = d.record_id
      /\ l[n - 1] = e.batch_id /\ l[n] = e.record_id
  BY KeyOfEvent
<1> HIDE DEF n, k, l
<1>2. StrictOrder(BeforeOn(n), Keys(n))
  BY <1>1, KeysOrdered
<1>3. /\ Before(k, l) <=> <<k, l>> \in BeforeOn(n)
      /\ Before(l, k) <=> <<l, k>> \in BeforeOn(n)
      /\ Before(k, k) <=> <<k, k>> \in BeforeOn(n)
  BY <1>1 DEF BeforeOn
<1>4. /\ ~(Before(k, l) /\ Before(l, k)) /\ ~Before(k, k)
      /\ Before(k, l) \/ Before(l, k) \/ k = l
  BY <1>1, <1>2, <1>3 DEF StrictOrder
<1> QED
  BY <1>1, <1>4 DEF k, l

\* Places in the order of the keys there, and of the places where keys tie.
PlacesOn(policy, events, D) ==
    {p \in D \X D :
        LET k == EventKey(policy, events[p[1]])
            l == EventKey(policy, events[p[2]])
        IN  Before(k, l) \/ (k = l /\ p[1] < p[2])}

LEMMA PlacesOrdered ==
    ASSUME NEW policy, NEW n \in Nat, NEW events, \A i \in 1 .. n : WellTyped(events[i])
    PROVE  StrictOrder(PlacesOn(policy, events, 1 .. n), 1 .. n)
<1> DEFINE K(i) == EventKey(policy, events[i])
           R == PlacesOn(policy, events, 1 .. n)
           z == KeySize(policy)
<1>1. \A i \in 1 .. n : K(i) \in Keys(z) /\ z \in Nat
  BY KeyOfEvent
<1>2. \A i, j \in 1 .. n : <<i, j>> \in R <=> Before(K(i), K(j)) \/ (K(i) = K(j) /\ i < j)
  BY DEF PlacesOn
<1> HIDE DEF K, R, z
<1>3. \A i, j \in 1 .. n : Before(K(i), K(j)) <=> <<K(i), K(j)>> \in BeforeOn(z)
  BY <1>1 DEF BeforeOn
<1>4. n = 0 \/ StrictOrder(BeforeOn(z), Keys(z))
  <2>1. n = 0 \/ z \in Nat
    BY <1>1
  <2> QED
    BY <2>1, KeysOrdered
<1>5. ASSUME NEW i \in 1 .. n PROVE <<i, i>> \notin R
  <2>1. StrictOrder(BeforeOn(z), Keys(z)) /\ K(i) \in Keys(z)
    BY <1>1, <1>4
  <2>2. ~Before(K(i), K(i))
    BY <1>3, <2>1 DEF StrictOrder
  <2> QED
    BY <1>2, <2>2
<1>6. ASSUME NEW a \in 1 .. n, NEW b \in 1 .. n, NEW c \in 1 .. n, <<a, b>> \in R, <<b, c>> \in R
      PROVE  <<a, c>> \in R
  <2>1. StrictOrder(BeforeOn(z), Keys(z)) /\ K(a) \in Keys(z) /\ K(b) \in Keys(z) /\ K(c) \in Keys(z)
    BY <1>1, <1>4
  <2>2. <<a, c>> \in R <=> <<K(a), K(c)>> \in BeforeOn(z) \/ (K(a) = K(c) /\ a < c)
    BY <1>2, <1>3
  <2>3. <<K(a), K(b)>> \in BeforeOn(z) \/ (K(a) = K(b) /\ a < b)
    BY <1>2, <1>3, <1>6
  <2>4. <<K(b), K(c)>> \in BeforeOn(z) \/ (K(b) = K(c) /\ b < c)
    BY <1>2, <1>3, <1>6
  <2> QED
    BY <2>1, <2>2, <2>3, <2>4 DEF StrictOrder
<1>7. ASSUME NEW i \in 1 .. n, NEW j \in 1 .. n, i # j PROVE <<i, j>> \in R \/ <<j, i>> \in R
  <2>1. StrictOrder(BeforeOn(z), Keys(z)) /\ K(i) \in Keys(z) /\ K(j) \in Keys(z)
    BY <1>1, <1>4
  <2>2. Before(K(i), K(j)) \/ Before(K(j), K(i)) \/ K(i) = K(j)
    BY <1>3, <2>1 DEF StrictOrder
  <2>3. i < j \/ j < i
    BY <1>7
  <2> QED
    BY <1>2, <2>2, <2>3
<1> QED
  BY <1>5, <1>6, <1>7 DEF StrictOrder, R

\* Sorting rearranges: no event is dropped, none is made.
LEMMA InOrderKeeps ==
    ASSUME NEW policy, NEW S, NEW events \in Seq(S), \A e \in S : WellTyped(e)
    PROVE  /\ InOrder(policy, events) \in Seq(S)
           /\ Range(InOrder(policy, events)) = Range(events)
<1> DEFINE n == Len(events)
           R == PlacesOn(policy, events, 1 .. n)
<1>1. n \in Nat /\ events \in [1 .. n -> S] /\ DOMAIN events = 1 .. n
  BY LenProperties
<1> HIDE DEF n
<1>2. \A i \in 1 .. n : WellTyped(events[i])
  BY <1>1
<1>3. StrictOrder(R, 1 .. n)
  BY <1>1, <1>2, PlacesOrdered
<1>4. IsFiniteSet(1 .. n) /\ Cardinality(1 .. n) = n
  BY <1>1, FS_Interval
<1>5. ListedIn(R, 1 .. n)
  <2> HIDE DEF R
  <2> QED
    BY <1>3, <1>4, Listed
<1>6. PICK list \in [1 .. n -> 1 .. n] : \A i, j \in 1 .. n : i < j => <<list[i], list[j]>> \in R
  BY <1>4, <1>5 DEF ListedIn
<1>7. SortsBy(policy, events, list)
  <2>1. \A i, j \in 1 .. n : i < j => list[i] # list[j]
    <3> HIDE DEF R
    <3> QED
      BY <1>3, <1>6 DEF StrictOrder
  <2>2. IsInjective(list)
    BY <1>1, <2>1 DEF IsInjective
  <2>3. ASSUME NEW i \in 1 .. n, NEW j \in 1 .. n, i < j
        PROVE  ~Before(EventKey(policy, events[list[j]]), EventKey(policy, events[list[i]]))
    <3> DEFINE d == events[list[i]]
               e == events[list[j]]
    <3>1. WellTyped(d) /\ WellTyped(e)
      BY <1>2, <1>6
    <3>2. Before(EventKey(policy, d), EventKey(policy, e)) \/ EventKey(policy, d) = EventKey(policy, e)
      BY <1>6, <2>3 DEF PlacesOn
    <3> HIDE DEF d, e
    <3>3. ~Before(EventKey(policy, e), EventKey(policy, d))
      BY <3>1, <3>2, EventsOrdered
    <3> QED
      BY <3>3 DEF d, e
  <2> QED
    BY <1>6, <2>2, <2>3 DEF SortsBy
<1> DEFINE p == CHOOSE q \in [1 .. n -> 1 .. n] : SortsBy(policy, events, q)
<1>8. p \in [1 .. n -> 1 .. n] /\ IsInjective(p)
  BY <1>6, <1>7 DEF SortsBy
<1>9. InOrder(policy, events) = IF policy \in Sorted THEN [i \in 1 .. n |-> events[p[i]]]
                                ELSE events
  BY <1>1 DEF InOrder
<1> HIDE DEF p
<1>10. CASE policy \in Sorted
  <2> DEFINE l == [i \in 1 .. n |-> events[p[i]]]
  <2>1. l \in Seq(S)
    BY <1>1, <1>8
  <2>2. \A i \in 1 .. n : \E j \in 1 .. n : p[j] = i
    <3>1. p \in Injection(1 .. n, 1 .. n)
      BY <1>8 DEF Injection, IsInjective
    <3>2. p \in Surjection(1 .. n, 1 .. n)
      BY <1>4, <3>1, FS_Injection
    <3> QED
      BY <3>2 DEF Surjection
  <2>3. Range(l) = Range(events)
    BY <1>1, <1>8, <2>2 DEF Range
  <2> QED
    BY <1>9, <1>10, <2>1, <2>3
<1> QED
  BY <1>9, <1>10

-----------------------------------------------------------------------------
(* Timelines.                                                               *)

\* A list in which an order of its members goes up.
Ascends(R, list) == \A i, j \in DOMAIN list : i < j => <<list[i], list[j]>> \in R

\* There is one list of a set in an order.
LEMMA OneListing ==
    ASSUME NEW S, NEW s \in Seq(S), NEW t \in Seq(S), Range(s) = Range(t),
           NEW R, StrictOrder(R, Range(s)), Ascends(R, s), Ascends(R, t)
    PROVE  s = t
<1> DEFINE m == Len(s)
           n == Len(t)
<1>1. /\ m \in Nat /\ n \in Nat /\ DOMAIN s = 1 .. m /\ DOMAIN t = 1 .. n
  BY LenProperties
<1> HIDE DEF m, n
<1>2. /\ \A i \in 1 .. m : s[i] \in Range(s) /\ \E j \in 1 .. n : s[i] = t[j]
      /\ \A j \in 1 .. n : t[j] \in Range(s) /\ \E i \in 1 .. m : t[j] = s[i]
  BY <1>1 DEF Range
<1>3. /\ \A i, j \in 1 .. m : i < j => <<s[i], s[j]>> \in R
      /\ \A i, j \in 1 .. n : i < j => <<t[i], t[j]>> \in R
  BY <1>1 DEF Ascends
<1>4. /\ \A a \in Range(s) : <<a, a>> \notin R
      /\ \A a, b \in Range(s) : ~(<<a, b>> \in R /\ <<b, a>> \in R)
  BY DEF StrictOrder
<1> DEFINE Differ == {i \in 1 .. m : i \notin 1 .. n \/ s[i] # t[i]}
<1>5. Differ = {}
  <2> SUFFICES ASSUME Differ # {} PROVE FALSE
    OBVIOUS
  <2>1. PICK i \in Differ : \A j \in Differ : i <= j
    <3>1. Differ \subseteq Nat
      OBVIOUS
    <3> HIDE DEF Differ
    <3> QED
      BY <3>1, LeastNumber
  <2>2. i \in 1 .. m /\ (i \in 1 .. n => s[i] # t[i])
    BY <2>1
  <2>3. \A j \in 1 .. m : j < i => j \in 1 .. n /\ s[j] = t[j]
    <3>1. \A j \in 1 .. m : j < i => j \notin Differ
      <4> HIDE DEF Differ
      <4> QED
        BY <1>1, <2>1, <2>2
    <3> QED
      BY <3>1
  <2>4. PICK j \in 1 .. n : s[i] = t[j]
    BY <1>2, <2>2
  <2>5. j > i
    <3>1. CASE j < i
      <4>1. j \in 1 .. m /\ s[j] = s[i]
        BY <1>1, <2>2, <2>3, <2>4, <3>1
      <4> QED
        BY <1>2, <1>3, <1>4, <2>2, <3>1, <4>1
    <3>2. CASE j = i
      BY <2>2, <2>4, <3>2
    <3> QED
      BY <2>2, <3>1, <3>2
  <2>6. i \in 1 .. n /\ <<t[i], s[i]>> \in R
    BY <1>1, <1>3, <2>2, <2>4, <2>5
  <2>7. PICK k \in 1 .. m : t[i] = s[k]
    BY <1>2, <2>6
  <2>8. CASE k < i
    <3>1. k \in 1 .. n /\ t[k] = t[i]
      BY <2>3, <2>7, <2>8
    <3> QED
      BY <1>2, <1>3, <1>4, <2>6, <2>8, <3>1
  <2>9. CASE k = i
    BY <2>2, <2>6, <2>7, <2>9
  <2>10. CASE k > i
    <3>1. <<s[i], t[i]>> \in R
      BY <1>3, <2>2, <2>7, <2>10
    <3> QED
      BY <1>2, <1>4, <2>2, <2>6, <3>1
  <2> QED
    BY <2>2, <2>8, <2>9, <2>10
<1>6. \A i \in 1 .. m : i \in 1 .. n /\ s[i] = t[i]
  BY <1>5
<1>7. m = n
  <2> SUFFICES ASSUME m < n PROVE FALSE
    <3>1. m <= n
      BY <1>1, <1>6
    <3> QED
      BY <1>1, <3>1
  <2>1. m + 1 \in 1 .. n
    BY <1>1
  <2>2. PICK k \in 1 .. m : t[m + 1] = s[k]
    BY <1>2, <2>1
  <2>3. k \in 1 .. n /\ t[k] = t[m + 1] /\ k < m + 1
    BY <1>1, <1>6, <2>2
  <2> QED
    BY <1>2, <1>3, <1>4, <2>1, <2>3
<1> QED
  BY <1>6, <1>7, SeqEqual DEF m, n

\* The events of its batches.
FromBatches(e, ids) == \E b \in Range(ids) : e \in Range(EventsOf(batches[b]))

TimelineHolds(l) ==
    /\ ValidTimeline(l)
    /\ l.events \in Seq(Range(l.events))
    /\ Range(l.input_batch_ids) \subseteq DOMAIN batches
    /\ \A e : e \in Range(l.events) <=> FromBatches(e, l.input_batch_ids)

TimelineInv ==
    /\ IsFiniteSet(DOMAIN batches)
    /\ \A b \in DOMAIN batches : batches[b] \in BatchInputs
    /\ \A t \in DOMAIN timelines : TimelineHolds(timelines[t])

LEMMA EventsTyped ==
    ASSUME NEW b \in BatchInputs
    PROVE  /\ EventsOf(b) \in Seq(Range(EventsOf(b)))
           /\ \A e \in Range(EventsOf(b)) : WellTyped(e)
<1>1. b.batch_id \in Int /\ b.records \in Seq(Range(b.records))
  BY BatchesAssumption
<1> DEFINE n == Len(b.records)
<1>2. n \in Nat /\ DOMAIN b.records = 1 .. n /\ \A i \in 1 .. n : b.records[i] \in Range(b.records)
  BY <1>1, LenProperties
<1> HIDE DEF n
<1>3. DOMAIN EventsOf(b) = 1 .. n /\ EventsOf(b) = [i \in 1 .. n |-> EventsOf(b)[i]]
  BY <1>2 DEF EventsOf
<1>4. EventsOf(b) \in Seq(Range(EventsOf(b)))
  <2> DEFINE events == EventsOf(b)
             S == Range(events)
  <2> HIDE DEF events
  <2>1. events \in [1 .. n -> S]
    BY <1>3 DEF Range, events
  <2> HIDE DEF S
  <2> QED
    BY <1>2, <2>1 DEF events, S
<1>5. ASSUME NEW i \in 1 .. n PROVE WellTyped(EventsOf(b)[i])
  <2> DEFINE r == b.records[i]
  <2>1. {r.record_id, r.event_time, r.kind, r.source_sequence} \subseteq Int
    BY <1>2, BatchesAssumption
  <2> HIDE DEF r
  <2>2. EventsOf(b)[i] = [batch_id |-> b.batch_id, input_dataset_id |-> b.input_dataset_id,
             record_id |-> r.record_id, kind |-> r.kind, instrument |-> r.instrument,
             event_time |-> r.event_time, source_sequence |-> r.source_sequence]
    BY <1>2 DEF EventsOf, r
  <2> QED
    BY <1>1, <2>1, <2>2 DEF WellTyped
<1>6. \A e \in Range(EventsOf(b)) : \E i \in 1 .. n : e = EventsOf(b)[i]
  BY <1>3 DEF Range
<1> QED
  BY <1>4, <1>5, <1>6

LEMMA TimelineStart == Init => TimelineInv
<1>1. DOMAIN Nothing = {} /\ IsFiniteSet({})
  BY FS_EmptySet DEF Nothing
<1> QED
  BY <1>1 DEF Init, PlanningInit, TimelineInv

\* What build_timeline makes of batches that are stored.
LEMMA BuiltFromBatches ==
    ASSUME TimelineInv, NEW n \in Nat, NEW ids \in [1 .. n -> DOMAIN batches],
           NEW plan, NEW window, NEW policy, NEW status, NEW now,
           ValidTimeline(TimelineOf(plan, ids, window, policy, status, now))
    PROVE  TimelineHolds(TimelineOf(plan, ids, window, policy, status, now))
<1> DEFINE t == TimelineOf(plan, ids, window, policy, status, now)
           S == UNION {Range(EventsOf(b)) : b \in BatchInputs}
           parts == [i \in 1 .. n |-> EventsOf(batches[ids[i]])]
           flat == FlattenSeq(parts)
<1>1. DOMAIN ids = 1 .. n /\ Range(ids) \subseteq DOMAIN batches
  BY DEF Range
<1>2. t.events = InOrder(policy, flat) /\ t.input_batch_ids = ids
  BY <1>1 DEF TimelineOf
<1>3. \A i \in 1 .. n : batches[ids[i]] \in BatchInputs
  BY DEF TimelineInv
<1>4. ASSUME NEW b \in BatchInputs PROVE EventsOf(b) \in Seq(S)
  <2>1. Range(EventsOf(b)) \subseteq S
    OBVIOUS
  <2>2. EventsOf(b) \in Seq(Range(EventsOf(b)))
    BY EventsTyped
  <2> HIDE DEF S
  <2> QED
    BY <2>1, <2>2, SeqMonotonic
<1>5. \A e \in S : WellTyped(e)
  BY EventsTyped
<1>6. parts \in [1 .. n -> Seq(S)]
  BY <1>3, <1>4
<1> HIDE DEF S
<1>7. /\ flat \in Seq(S)
      /\ \A e : e \in Range(flat) <=> \E i \in 1 .. n : e \in Range(parts[i])
  <2> HIDE DEF parts
  <2> QED
    BY <1>6, Flattened
<1>8. \A e : e \in Range(flat) <=> FromBatches(e, ids)
  <2>1. \A e : FromBatches(e, ids) <=> \E i \in 1 .. n : e \in Range(EventsOf(batches[ids[i]]))
    BY <1>1 DEF FromBatches, Range
  <2> HIDE DEF flat
  <2> QED
    BY <1>7, <2>1
<1> HIDE DEF flat, parts
<1>9. t.events \in Seq(S) /\ Range(t.events) = Range(flat)
  BY <1>2, <1>5, <1>7, InOrderKeeps
<1> HIDE DEF t
<1>10. t.events \in Seq(Range(t.events))
  BY <1>9, SeqOfRange
<1> QED
  BY <1>1, <1>2, <1>8, <1>9, <1>10 DEF TimelineHolds, t

LEMMA BuildTimelineKeeps ==
    ASSUME TimelineInv, NEW id, NEW plan, NEW window, NEW policy, NEW status,
           NEW ids \in BatchLists(plan, window, policy),
           BuildTimeline(id, plan, ids, window, policy, status)
    PROVE  TimelineInv'
<1>1. UNCHANGED batches
  BY DEF BuildTimeline, inputVars
<1>2. PICK t, now : /\ t = TimelineOf(plan, ids, window, policy, status, now)
                    /\ ValidTimeline(t) /\ timelines' = Saved(timelines, id, t)
  BY DEF BuildTimeline
<1>3. PICK n : n \in Nat /\ ids \in [1 .. n -> DOMAIN batches]
  <2> DEFINE usable == {b \in DOMAIN batches : Usable(b, plan, window, policy)}
  <2>1. IsFiniteSet(usable) /\ usable \subseteq DOMAIN batches
    BY FS_Subset DEF TimelineInv
  <2>2. Cardinality(usable) \in Nat
    BY <2>1, FS_CardinalityType
  <2>3. \E n \in 0 .. Cardinality(usable) : ids \in [1 .. n -> usable]
    BY DEF BatchLists
  <2> HIDE DEF usable
  <2> QED
    BY <2>1, <2>2, <2>3
<1>4. TimelineHolds(t)
  BY <1>2, <1>3, BuiltFromBatches
<1>5. \A u \in DOMAIN timelines' : TimelineHolds(timelines'[u])
  <2>1. timelines' = Saved(timelines, id, t)
    BY <1>2
  <2>2. /\ Grows(timelines, timelines')
        /\ \A u \in DOMAIN timelines' : u \in DOMAIN timelines \/ timelines'[u] = t
    BY <2>1, SavedGrows
  <2> QED
    BY <1>4, <2>2 DEF Grows, TimelineInv
<1> QED
  BY <1>1, <1>5 DEF TimelineInv, TimelineHolds, FromBatches

LEMMA CreateInputBatchKeeps ==
    ASSUME TimelineInv, NEW b \in BatchInputs, CreateInputBatch(b)
    PROVE  TimelineInv'
<1>1. UNCHANGED timelines /\ batches' = Saved(batches, b.batch_id, b)
  BY DEF CreateInputBatch
<1>2. /\ Grows(batches, batches') /\ DOMAIN batches' = DOMAIN batches \cup {b.batch_id}
      /\ \A i \in DOMAIN batches' : i \in DOMAIN batches \/ batches'[i] = b
  BY <1>1, SavedGrows
<1>3. IsFiniteSet(DOMAIN batches')
  BY <1>2, FS_AddElement DEF TimelineInv
<1>4. \A i \in DOMAIN batches' : batches'[i] \in BatchInputs
  BY <1>2 DEF Grows, TimelineInv
<1>5. ASSUME NEW l, TimelineHolds(l) PROVE TimelineHolds(l)'
  <2>1. \A e : FromBatches(e, l.input_batch_ids)' <=> FromBatches(e, l.input_batch_ids)
    BY <1>2, <1>5 DEF TimelineHolds, FromBatches, Grows
  <2> QED
    BY <1>2, <1>5, <2>1 DEF TimelineHolds, Grows
<1>6. \A t \in DOMAIN timelines : TimelineHolds(timelines[t])
  BY DEF TimelineInv
<1> QED
  BY <1>1, <1>3, <1>4, <1>5, <1>6 DEF TimelineInv

\* Steps of the other components leave timelines as they are or drop some.
LEMMA TimelinesStay ==
    ASSUME TimelineInv, UNCHANGED batches, DOMAIN timelines' \subseteq DOMAIN timelines,
           \A t \in DOMAIN timelines' : timelines'[t] = timelines[t]
    PROVE  TimelineInv'
BY DEF TimelineInv, TimelineHolds, FromBatches

LEMMA TimelineStep == TimelineInv /\ [Next]_vars => TimelineInv'
<1> SUFFICES ASSUME TimelineInv, [Next]_vars PROVE TimelineInv'
  OBVIOUS
<1>1. CASE TimelineNext
  <2>1. CASE \E id \in DOMAIN DatasetInputs : RegisterInputDataset(id)
    BY <2>1, TimelinesStay DEF RegisterInputDataset
  <2>2. CASE \E b \in BatchInputs : CreateInputBatch(b)
    BY <2>2, CreateInputBatchKeeps
  <2>3. CASE \E id \in Free(TimelineIds, timelines), plan \in DOMAIN PlanStore,
                policy \in Policies, status \in {"BUILT", "VALIDATED"} :
             \E window \in PlanStore[plan].temporal_windows :
             \E ids \in BatchLists(plan, window, policy) :
                BuildTimeline(id, plan, ids, window, policy, status)
    BY <2>3, BuildTimelineKeeps
  <2> QED
    BY <1>1, <2>1, <2>2, <2>3 DEF TimelineNext
<1>2. CASE CursorNext
  BY <1>2, TimelinesStay DEF CursorNext, CreateCursor, AdvanceCursor, CompleteCursor,
     InvalidateCursor, Loaded, SaveCursor, inputVars
<1>3. CASE AuditNext
  BY <1>3, TimelinesStay DEF AuditNext, GenerateReport, GenerateDiff, inputVars
<1>4. CASE IntegrityNext
  <2>1. CASE \E t \in TimelineIds : LoseTimeline(t)
    BY <2>1, TimelinesStay DEF LoseTimeline, inputVars
  <2>2. CASE ~ \E t \in TimelineIds : LoseTimeline(t)
    <3>1. UNCHANGED planningVars
      BY <1>4, <2>2 DEF IntegrityNext, FingerprintArtifact, VerifyFingerprint, VerifyBatch,
         VerifyNext, FinishBatch, BatchFails, CheckReplayPlan, ReadBatchReports,
         SaveReadiness, PlanReplayRun
    <3> QED
      BY <3>1, TimelinesStay DEF planningVars
  <2> QED
    BY <2>1, <2>2
<1>5. CASE UNCHANGED vars
  BY <1>5, TimelinesStay DEF vars, planningVars
<1> QED
  BY <1>1, <1>2, <1>3, <1>4, <1>5 DEF Next, PlanningNext

\* A timeline's events are well typed.
LEMMA HeldEventsTyped ==
    ASSUME TimelineInv, NEW l, TimelineHolds(l)
    PROVE  \A e \in Range(l.events) : WellTyped(e)
<1>1. ASSUME NEW e \in Range(l.events) PROVE WellTyped(e)
  <2>1. PICK b \in Range(l.input_batch_ids) : e \in Range(EventsOf(batches[b]))
    BY DEF TimelineHolds, FromBatches
  <2>2. batches[b] \in BatchInputs
    BY DEF TimelineInv, TimelineHolds
  <2> QED
    BY <2>1, <2>2, EventsTyped
<1> QED
  BY <1>1

\* The order of events by their keys.
EventsOn(policy, D) == {p \in D \X D : Before(EventKey(policy, p[1]), EventKey(policy, p[2]))}

\* Under a sorting policy the events go up in an order of their own.
LEMMA TimelineAscends ==
    ASSUME TimelineInv, NEW l, TimelineHolds(l), l.ordering_policy \in Sorted
    PROVE  Ascends(EventsOn(l.ordering_policy, Range(l.events)), l.events)
<1> DEFINE policy == l.ordering_policy
           s == l.events
<1>1. ValidTimeline(l) /\ \A e \in Range(s) : WellTyped(e)
  BY HeldEventsTyped DEF TimelineHolds
<1>2. ASSUME NEW i \in DOMAIN s, NEW j \in DOMAIN s, i < j
      PROVE  <<s[i], s[j]>> \in EventsOn(policy, Range(s))
  <2>1. s[i] \in Range(s) /\ s[j] \in Range(s) /\ i # j
    <3>1. Len(s) \in Nat /\ DOMAIN s = 1 .. Len(s)
      BY LenProperties DEF TimelineHolds
    <3> QED
      BY <1>2, <3>1 DEF Range
  <2>2. ~Before(EventKey(policy, s[j]), EventKey(policy, s[i]))
    BY <1>1, <1>2 DEF ValidTimeline
  <2>3. ~(s[i].batch_id = s[j].batch_id /\ s[i].record_id = s[j].record_id)
    BY <1>1, <2>1 DEF ValidTimeline
  <2> DEFINE d == s[i]
             e == s[j]
  <2>4. WellTyped(d) /\ WellTyped(e)
    BY <1>1, <2>1
  <2> HIDE DEF d, e, policy
  <2>5. Before(EventKey(policy, d), EventKey(policy, e))
    BY <2>2, <2>3, <2>4, EventsOrdered DEF d, e
  <2> QED
    BY <2>1, <2>5 DEF EventsOn, d, e
<1> QED
  BY <1>2 DEF Ascends

LEMMA EventsOnOrdered ==
    ASSUME NEW policy, NEW D, NEW l \in Seq(D), Range(l) = D, \A e \in D : WellTyped(e),
           Ascends(EventsOn(policy, D), l)
    PROVE  StrictOrder(EventsOn(policy, D), D)
<1> DEFINE K(e) == EventKey(policy, e)
           R == EventsOn(policy, D)
           z == KeySize(policy)
<1>1. \A e \in D : K(e) \in Keys(z) /\ z \in Nat
  BY KeyOfEvent
<1>2. \A d, e \in D : <<d, e>> \in R <=> Before(K(d), K(e))
  BY DEF EventsOn
<1>3. Len(l) \in Nat /\ DOMAIN l = 1 .. Len(l)
  BY LenProperties
<1>4. \A d, e \in D : d = e \/ <<d, e>> \in R \/ <<e, d>> \in R
  <2>1. ASSUME NEW d \in D, NEW e \in D, d # e PROVE <<d, e>> \in R \/ <<e, d>> \in R
    <3>1. PICK i, j : i \in DOMAIN l /\ j \in DOMAIN l /\ l[i] = d /\ l[j] = e
      BY DEF Range
    <3>2. i < j \/ j < i
      BY <1>3, <2>1, <3>1
    <3> HIDE DEF R
    <3> QED
      BY <3>1, <3>2 DEF Ascends, R
  <2> QED
    BY <2>1
<1> HIDE DEF K, R, z
<1>5. \A d, e \in D : <<d, e>> \in R <=> <<K(d), K(e)>> \in BeforeOn(z)
  BY <1>1, <1>2 DEF BeforeOn
<1>6. D = {} \/ StrictOrder(BeforeOn(z), Keys(z))
  <2>1. D = {} \/ z \in Nat
    BY <1>1
  <2> QED
    BY <2>1, KeysOrdered
<1>7. ASSUME NEW e \in D PROVE <<e, e>> \notin R
  <2>1. StrictOrder(BeforeOn(z), Keys(z)) /\ K(e) \in Keys(z)
    BY <1>1, <1>6
  <2> QED
    BY <1>5, <2>1 DEF StrictOrder
<1>8. ASSUME NEW a \in D, NEW b \in D, NEW c \in D, <<a, b>> \in R, <<b, c>> \in R
      PROVE  <<a, c>> \in R
  <2>1. StrictOrder(BeforeOn(z), Keys(z)) /\ K(a) \in Keys(z) /\ K(b) \in Keys(z) /\ K(c) \in Keys(z)
    BY <1>1, <1>6
  <2>2. <<K(a), K(b)>> \in BeforeOn(z) /\ <<K(b), K(c)>> \in BeforeOn(z)
    BY <1>5, <1>8
  <2> QED
    BY <1>5, <2>1, <2>2 DEF StrictOrder
<1> QED
  BY <1>4, <1>7, <1>8 DEF StrictOrder, R

\* Two timelines of the same batches have the same events.
LEMMA SameBatchesSameEvents ==
    ASSUME TimelineInv, NEW l, TimelineHolds(l), NEW m, TimelineHolds(m),
           l.ordering_policy = m.ordering_policy, l.ordering_policy \in Sorted,
           Range(l.input_batch_ids) = Range(m.input_batch_ids)
    PROVE  l.events = m.events
<1> DEFINE s == l.events
           t == m.events
           D == Range(s)
           R == EventsOn(l.ordering_policy, D)
<1>1. Range(t) = D
  BY DEF TimelineHolds, FromBatches
<1>2. s \in Seq(D) /\ t \in Seq(D)
  BY <1>1 DEF TimelineHolds
<1>3. Ascends(R, s)
  BY TimelineAscends
<1>4. Ascends(R, t)
  <2>1. Ascends(EventsOn(m.ordering_policy, Range(t)), t)
    BY TimelineAscends
  <2> QED
    BY <1>1, <2>1
<1>5. \A e \in D : WellTyped(e)
  BY HeldEventsTyped
<1> HIDE DEF s, t
<1>6. StrictOrder(R, D)
  BY <1>2, <1>3, <1>5, EventsOnOrdered
<1> HIDE DEF R
<1>7. s = t
  BY <1>1, <1>2, <1>3, <1>4, <1>6, OneListing
<1> QED
  BY <1>7 DEF s, t

LEMMA TimelineInvImplies == TimelineInv => TimelinesDeterministic
<1> SUFFICES ASSUME TimelineInv PROVE TimelinesDeterministic
  OBVIOUS
<1>1. \A t \in DOMAIN timelines : TimelineHolds(timelines[t])
  BY DEF TimelineInv
<1>2. ASSUME NEW t \in DOMAIN timelines
      PROVE  LET l == timelines[t]
             IN  /\ IsInjective(l.events)
                 /\ Range(l.events) =
                        UNION {Range(EventsOf(batches[b])) : b \in Range(l.input_batch_ids)}
  <2> DEFINE l == timelines[t]
  <2>1. TimelineHolds(l)
    BY <1>1
  <2> HIDE DEF l
  <2>2. IsInjective(l.events)
    BY <2>1 DEF TimelineHolds, ValidTimeline, IsInjective
  <2>3. \A e : e \in Range(l.events) <=>
            e \in UNION {Range(EventsOf(batches[b])) : b \in Range(l.input_batch_ids)}
    BY <2>1 DEF TimelineHolds, FromBatches
  <2>4. Range(l.events) =
            UNION {Range(EventsOf(batches[b])) : b \in Range(l.input_batch_ids)}
    BY <2>3
  <2> QED
    BY <2>2, <2>4 DEF l
<1>3. ASSUME NEW s \in DOMAIN timelines, NEW t \in DOMAIN timelines,
             timelines[s].ordering_policy = timelines[t].ordering_policy,
             timelines[s].ordering_policy \in Sorted,
             Range(timelines[s].input_batch_ids) = Range(timelines[t].input_batch_ids)
      PROVE  timelines[s].events = timelines[t].events
  BY <1>1, <1>3, SameBatchesSameEvents
<1> QED
  BY <1>2, <1>3 DEF TimelinesDeterministic

\* A timeline holds the records of its batches, each once, and two timelines of
\* the same batches under a sorting policy are the same list of events, however
\* the batches were named, whatever else was stored between them
\* (LocalReplayTimelineBuilder.build_timeline, replay/local.py): the sort keys
\* are a total order on records.
THEOREM TimelinesAreDeterministic == Spec => []TimelinesDeterministic
<1>1. Init => TimelineInv
  BY TimelineStart
<1>2. TimelineInv /\ [Next]_vars => TimelineInv'
  BY TimelineStep
<1>3. TimelineInv => TimelinesDeterministic
  BY TimelineInvImplies
<1> QED
  BY <1>1, <1>2, <1>3, PTL DEF Spec
=============================================================================
