----------------------- MODULE ResearchRegistryProofs -----------------------
(***************************************************************************)
(* Proof that the record of the research stands, for every number of       *)
(* researchers who save copies they loaded at any earlier time.            *)
(*                                                                         *)
(* A copy is not what is stored, but what it adds to a result set was      *)
(* declared when it was loaded, and declarations only grow: that is what   *)
(* the invariant says of the calls under way.                              *)
(***************************************************************************)
EXTENDS ResearchRegistry, TLAPS

ResultFields ==
    {"id", "run_id", "evaluation_plan_id", "status", "updated_at", "observations",
     "assessments", "artifact_ids", "notes"}

\* What ReferencesResolve says of the content of a result set, of a stored
\* one and of a copy.
Declared(r) ==
    /\ \A o \in r.observations : ObservationDeclared(o)
         \/ \E x \in ResultInputs : x.id = r.id /\ o \in x.observations
    /\ \A i \in r.artifact_ids : Known(once["artifacts"], i)
         \/ \E x \in ResultInputs : x.id = r.id /\ i \in x.artifact_ids

ResultOK(r) == DOMAIN r = ResultFields /\ Declared(r)

CopiesDeclared ==
    \A c \in Researchers :
        /\ calls[c] # NoRecord
        /\ calls[c].store = "results"
        => ResultOK(calls[c].record)

ResearchInv ==
    /\ DOMAIN once = OnceStores /\ DOMAIN calls = Researchers
    /\ UniqueIds(experiments) /\ UniqueIds(runs) /\ UniqueIds(results)
    /\ UniqueIds(once["evaluation_plans"])
    /\ \A r \in results : ResultOK(r)
    /\ CopiesDeclared
    /\ ReferencesResolve

-----------------------------------------------------------------------------
(* Stores with one record under an id. *)

LEMMA GetIs ==
    ASSUME NEW S, NEW id, Known(S, id)
    PROVE  Get(S, id) \in S /\ Get(S, id).id = id
BY DEF Known, Get

LEMMA GetOf ==
    ASSUME NEW S, UniqueIds(S), NEW x \in S
    PROVE  Known(S, x.id) /\ Get(S, x.id) = x
BY DEF Known, Get, UniqueIds

LEMMA ReplacedIs ==
    ASSUME NEW S, UniqueIds(S), NEW x
    PROVE  /\ UniqueIds(Replaced(S, x))
           /\ \A id : Known(S, id) => Known(Replaced(S, x), id)
           /\ x \in Replaced(S, x)
           /\ \A y \in S : y.id # x.id => y \in Replaced(S, x)
           /\ \A y \in Replaced(S, x) : y = x \/ y \in S
BY DEF Replaced, UniqueIds, Known

\* A record under a new id leaves what the others say.
LEMMA GetStays ==
    ASSUME NEW S, UniqueIds(S), NEW x, ~Known(S, x.id), NEW id, Known(S, id)
    PROVE  /\ UniqueIds(S \cup {x})
           /\ Known(S \cup {x}, id)
           /\ Get(S \cup {x}, id) = Get(S, id)
<1>1. UniqueIds(S \cup {x})
  BY DEF UniqueIds, Known
<1>2. Get(S, id) \in S /\ Get(S, id).id = id
  BY GetIs
<1>3. Known(S \cup {x}, id)
  BY DEF Known
<1>4. Get(S \cup {x}, id) \in S \cup {x} /\ Get(S \cup {x}, id).id = id
  BY <1>3, GetIs
<1> QED
  BY <1>1, <1>2, <1>3, <1>4 DEF UniqueIds

-----------------------------------------------------------------------------
(* What was declared stays declared. *)

\* The stores written once are as they were, or one has a record more.
OnceGrew ==
    \/ once' = once
    \/ \E name \in OnceStores : \E x :
        /\ ~Known(once[name], x.id)
        /\ once' = [once EXCEPT ![name] = @ \cup {x}]

LEMMA OnceKept ==
    ASSUME ResearchInv, OnceGrew
    PROVE  /\ DOMAIN once' = OnceStores
           /\ \A name \in OnceStores : once[name] \subseteq once'[name]
           /\ UniqueIds(once'["evaluation_plans"])
           /\ \A o : ObservationDeclared(o) => ObservationDeclared(o)'
           /\ \A i : Known(once["artifacts"], i) => Known(once'["artifacts"], i)
<1>1. CASE once' = once
  BY <1>1 DEF ResearchInv, ObservationDeclared, PlanKnown, EvaluationPlanOf
<1>2. CASE \E name \in OnceStores : \E x :
            /\ ~Known(once[name], x.id)
            /\ once' = [once EXCEPT ![name] = @ \cup {x}]
  <2>0. PICK name \in OnceStores : \E x :
            /\ ~Known(once[name], x.id)
            /\ once' = [once EXCEPT ![name] = @ \cup {x}]
    BY <1>2
  <2>1. PICK x :
            /\ ~Known(once[name], x.id)
            /\ once' = [once EXCEPT ![name] = @ \cup {x}]
    BY <2>0
  <2> DEFINE P == once["evaluation_plans"]
             Q == once'["evaluation_plans"]
  <2>2. DOMAIN once' = OnceStores /\ \A n \in OnceStores : once[n] \subseteq once'[n]
    BY <2>1 DEF ResearchInv
  <2>3. \/ Q = P
        \/ ~Known(P, x.id) /\ Q = P \cup {x}
    BY <2>1 DEF ResearchInv, OnceStores
  <2>4. UniqueIds(P)
    BY DEF ResearchInv
  <2> HIDE DEF P, Q
  <2>5. UniqueIds(Q)
    BY <2>3, <2>4 DEF UniqueIds, Known
  <2>6. ASSUME NEW id, Known(P, id)
        PROVE  Known(Q, id) /\ Get(Q, id) = Get(P, id)
    <3>1. CASE Q = P
      BY <2>6, <3>1
    <3>2. CASE ~Known(P, x.id) /\ Q = P \cup {x}
      BY <2>4, <2>6, <3>2, GetStays
    <3> QED
      BY <2>3, <3>1, <3>2
  <2>7. ASSUME NEW o, ObservationDeclared(o)
        PROVE  ObservationDeclared(o)'
    <3>1. Known(P, o.evaluation_plan_id)
      BY <2>7 DEF ObservationDeclared, PlanKnown, P
    <3>2. Known(Q, o.evaluation_plan_id)
      BY <2>6, <3>1
    <3>3. Get(Q, o.evaluation_plan_id) = Get(P, o.evaluation_plan_id)
      BY <2>6, <3>1
    <3> QED
      BY <2>7, <3>2, <3>3 DEF ObservationDeclared, PlanKnown, EvaluationPlanOf, P, Q
  <2>8. \A i : Known(once["artifacts"], i) => Known(once'["artifacts"], i)
    BY <2>2 DEF Known, OnceStores
  <2> QED
    BY <2>2, <2>5, <2>7, <2>8 DEF Q
<1> QED
  BY <1>1, <1>2 DEF OnceGrew

LEMMA DeclaredStays ==
    ASSUME ResearchInv, OnceGrew
    PROVE  \A r : ResultOK(r) => ResultOK(r)'
BY OnceKept DEF ResultOK, Declared

\* The references of lineage records and bundles resolve against stores that
\* only gain ids.
LEMMA LineageStays ==
    ASSUME ResearchInv, OnceGrew,
           \A id : Known(experiments, id) => Known(experiments', id),
           \A id : Known(runs, id) => Known(runs', id)
    PROVE  \A r : LineageReferences(r) => LineageReferences(r)'
<1>1. \A name \in OnceStores : \A id : Known(once[name], id) => Known(once'[name], id)
  BY OnceKept DEF Known
<1> QED
  BY <1>1 DEF LineageReferences, OnceStores

LEMMA ReferencesStay ==
    ASSUME ResearchInv, OnceGrew,
           \A id : Known(experiments, id) => Known(experiments', id),
           \A id : Known(runs, id) => Known(runs', id),
           \A r \in once'["lineage"] : r \in once["lineage"] \/ LineageReferences(r)',
           \A b \in once'["bundles"] : b \in once["bundles"] \/ BundleFounded(b),
           \A r \in results' : ValidResultSet(r) /\ ResultOK(r)'
    PROVE  ReferencesResolve'
<1>1. \A r \in once'["lineage"] : LineageReferences(r)'
  BY LineageStays DEF ResearchInv, ReferencesResolve
<1>2. once["configs"] \subseteq once'["configs"]
  BY OnceKept DEF OnceStores
<1>3. \A b : BundleFounded(b) => BundleFounded(b)'
  BY <1>2 DEF BundleFounded
<1>4. \A b \in once'["bundles"] : BundleFounded(b)'
  BY <1>3 DEF ResearchInv, ReferencesResolve
<1> QED
  BY <1>1, <1>4 DEF ReferencesResolve, ResultOK, Declared

LEMMA CopiesStay ==
    ASSUME ResearchInv, OnceGrew, DOMAIN calls' = Researchers,
           \A c \in Researchers :
              \/ calls'[c] = calls[c] \/ calls'[c] = NoRecord
              \/ calls'[c].store = "results" => ResultOK(calls'[c].record)
    PROVE  CopiesDeclared'
BY DeclaredStays DEF ResearchInv, CopiesDeclared

-----------------------------------------------------------------------------
(* The steps.  Each keeps the invariant and every conclusion. *)

Keeps == ResearchInv' /\ ConclusionsKept

\* A step that writes only stores of records written once.
LEMMA OnceStep ==
    ASSUME ResearchInv, OnceGrew, UNCHANGED <<experiments, runs, results, calls>>,
           \A r \in once'["lineage"] : r \in once["lineage"] \/ LineageReferences(r)',
           \A b \in once'["bundles"] : b \in once["bundles"] \/ BundleFounded(b)
    PROVE  Keeps
<1>1. \A r \in results' : ValidResultSet(r) /\ ResultOK(r)'
  BY DeclaredStays DEF ResearchInv, ReferencesResolve
<1>2. ReferencesResolve'
  BY <1>1, ReferencesStay
<1>3. CopiesDeclared'
  BY CopiesStay DEF ResearchInv
<1>4. ConclusionsKept
  <2>1. \A r \in results : SamePayload(r, r)
    BY DEF SamePayload, BelongsTo
  <2> QED
    BY <2>1, OnceKept DEF ConclusionsKept
<1> QED
  BY <1>1, <1>2, <1>3, <1>4, OnceKept DEF ResearchInv, Keeps

LEMMA KeepsOnce == ResearchInv /\ OnceNext => Keeps
<1> SUFFICES ASSUME ResearchInv, OnceNext
             PROVE  Keeps
  OBVIOUS
<1>1. ASSUME NEW name \in OnceStores, NEW x, SaveOnce(name, x)
      PROVE  /\ OnceGrew /\ UNCHANGED <<experiments, runs, results, calls>>
             /\ \A n \in OnceStores : once'[n] = IF n = name THEN once[n] \cup {x} ELSE once[n]
  BY <1>1 DEF SaveOnce, OnceGrew, ResearchInv
<1>2. ASSUME NEW name \in OnceStores \ {"lineage", "bundles"}, NEW x, SaveOnce(name, x)
      PROVE  Keeps
  <2>1. once'["lineage"] = once["lineage"] /\ once'["bundles"] = once["bundles"]
    BY <1>1, <1>2 DEF OnceStores
  <2> QED
    BY <1>1, <1>2, <2>1, OnceStep
<1>3. CASE RegisterConfigSnapshot \/ CreateReplayPlan \/ CreateEvaluationPlan \/ RecordArtifact
  BY <1>2, <1>3 DEF RegisterConfigSnapshot, CreateReplayPlan, CreateEvaluationPlan,
     RecordArtifact, OnceStores
<1>4. CASE RegisterConfigBundle \/ ComposeConfigBundle
  <2>1. PICK x : BundleFounded(x) /\ SaveOnce("bundles", x)
    <3>1. CASE RegisterConfigBundle
      BY <3>1 DEF RegisterConfigBundle, BundleFounded
    <3>2. CASE ComposeConfigBundle
      <4>1. PICK b \in BundleInputs :
              SaveOnce("bundles", [id |-> b.id, entries |-> BundleEntries(b.config_ids)])
        BY <3>2 DEF ComposeConfigBundle
      <4>2. BundleFounded([id |-> b.id, entries |-> BundleEntries(b.config_ids)])
        BY DEF BundleFounded, BundleEntries
      <4> QED
        BY <4>1, <4>2
    <3> QED
      BY <1>4, <3>1, <3>2
  <2>2. "bundles" \in OnceStores /\ "lineage" \in OnceStores
    BY DEF OnceStores
  <2>3. once'["lineage"] = once["lineage"] /\ once'["bundles"] = once["bundles"] \cup {x}
    BY <1>1, <2>1, <2>2
  <2>4. OnceGrew /\ UNCHANGED <<experiments, runs, results, calls>>
    BY <1>1, <2>1, <2>2
  <2> QED
    BY <2>1, <2>3, <2>4, OnceStep
<1>5. CASE RegisterLineage
  <2>1. PICK r \in LineageInputs : LineageReferences(r) /\ SaveOnce("lineage", r)
    BY <1>5 DEF RegisterLineage
  <2>2. "bundles" \in OnceStores /\ "lineage" \in OnceStores
    BY DEF OnceStores
  <2>3. once'["lineage"] = once["lineage"] \cup {r} /\ once'["bundles"] = once["bundles"]
    BY <1>1, <2>1, <2>2
  <2>4. OnceGrew /\ UNCHANGED <<experiments, runs, results, calls>>
    BY <1>1, <2>1, <2>2
  <2>5. LineageReferences(r)'
    BY <2>1, <2>4, LineageStays
  <2> QED
    BY <2>3, <2>4, <2>5, OnceStep
<1> QED
  BY <1>3, <1>4, <1>5 DEF OnceNext

\* A step that leaves the stores written once and the results alone.
LEMMA OtherStep ==
    ASSUME ResearchInv, UNCHANGED <<once, results>>,
           UniqueIds(experiments'), UniqueIds(runs'),
           \A id : Known(experiments, id) => Known(experiments', id),
           \A id : Known(runs, id) => Known(runs', id),
           CopiesDeclared', DOMAIN calls' = Researchers,
           \A x \in experiments : x.status \in FinalExperiment => x \in experiments',
           \A m \in runs : m.status \in TerminalRun =>
               \E n \in runs' : n.id = m.id /\ n.status \in TerminalRun
    PROVE  Keeps
<1>1. OnceGrew
  BY DEF OnceGrew
<1>2. \A r \in results' : ValidResultSet(r) /\ ResultOK(r)'
  BY <1>1, DeclaredStays DEF ResearchInv, ReferencesResolve
<1>3. ReferencesResolve'
  BY <1>1, <1>2, ReferencesStay
<1>4. \A r \in results : SamePayload(r, r)
  BY DEF SamePayload, BelongsTo
<1>5. ConclusionsKept
  BY <1>4 DEF ConclusionsKept
<1> QED
  BY <1>2, <1>3, <1>5 DEF Keeps, ResearchInv

LEMMA KeepsExperiment == ResearchInv /\ RegisterExperiment => Keeps
<1> SUFFICES ASSUME ResearchInv, RegisterExperiment
             PROVE  Keeps
  OBVIOUS
<1>1. PICK x \in ExperimentInputs :
        /\ Known(experiments, x.id) => AcceptsExperiment(Get(experiments, x.id), x)
        /\ experiments' = Replaced(experiments, x)
        /\ UNCHANGED <<once, runs, results, calls>>
  BY DEF RegisterExperiment
<1>2. UniqueIds(experiments)
  BY DEF ResearchInv
<1>3. /\ UniqueIds(experiments')
      /\ \A id : Known(experiments, id) => Known(experiments', id)
  BY <1>1, <1>2, ReplacedIs
<1>4. ASSUME NEW y \in experiments, y.status \in FinalExperiment
      PROVE  y \in experiments'
  <2>1. CASE y.id # x.id
    BY <1>1, <1>2, <2>1, ReplacedIs
  <2>2. CASE y.id = x.id
    <3>1. Known(experiments, x.id) /\ Get(experiments, x.id) = y
      BY <1>2, <2>2, GetOf
    <3>2. x = y
      BY <1>1, <1>4, <3>1 DEF AcceptsExperiment
    <3> QED
      BY <1>1, <1>2, <3>2, ReplacedIs
  <2> QED
    BY <2>1, <2>2
<1>5. CopiesDeclared'
  BY <1>1, CopiesStay DEF ResearchInv, OnceGrew
<1>6. \A m \in runs : m.status \in TerminalRun =>
         \E n \in runs' : n.id = m.id /\ n.status \in TerminalRun
  BY <1>1
<1> QED
  BY <1>1, <1>3, <1>4, <1>5, <1>6, OtherStep DEF ResearchInv

\* The run store takes a manifest.
LEMMA RunsReplaced ==
    ASSUME ResearchInv, NEW m, AcceptsManifest(m), runs' = Replaced(runs, m)
    PROVE  /\ UniqueIds(runs')
           /\ \A id : Known(runs, id) => Known(runs', id)
           /\ \A n \in runs : n.status \in TerminalRun =>
                \E o \in runs' : o.id = n.id /\ o.status \in TerminalRun
<1>1. UniqueIds(runs)
  BY DEF ResearchInv
<1>2. ASSUME NEW n \in runs, n.status \in TerminalRun
      PROVE  \E o \in runs' : o.id = n.id /\ o.status \in TerminalRun
  <2>1. CASE n.id # m.id
    BY <1>1, <1>2, <2>1, ReplacedIs
  <2>2. CASE n.id = m.id
    <3>1. Known(runs, m.id) /\ Get(runs, m.id) = n
      BY <1>1, <2>2, GetOf
    <3>2. m.status \in TerminalRun
      BY <1>2, <3>1 DEF AcceptsManifest
    <3> QED
      BY <1>1, <2>2, <3>2, ReplacedIs
  <2> QED
    BY <2>1, <2>2
<1> QED
  BY <1>1, <1>2, ReplacedIs

LEMMA KeepsRuns == ResearchInv /\ RunsNext => Keeps
<1> SUFFICES ASSUME ResearchInv, RunsNext
             PROVE  Keeps
  OBVIOUS
<1>1. CASE CreateManifest
  <2>1. PICK m \in ManifestInputs : AcceptsManifest(m) /\ runs' = Replaced(runs, m)
    BY <1>1 DEF CreateManifest
  <2>2. UNCHANGED <<once, experiments, results, calls>>
    BY <1>1 DEF CreateManifest
  <2>3. CopiesDeclared'
    BY <2>2, CopiesStay DEF ResearchInv, OnceGrew
  <2> QED
    BY <2>1, <2>2, <2>3, RunsReplaced, OtherStep DEF ResearchInv
<1>2. ASSUME NEW c \in Researchers, UpdateRun(c)
      PROVE  Keeps
  <2>1. PICK x : calls' = [calls EXCEPT ![c] = [store |-> "runs", record |-> x]]
    BY <1>2 DEF UpdateRun, Begin
  <2>2. UNCHANGED <<once, experiments, runs, results>>
    BY <1>2 DEF UpdateRun, Begin
  <2>3. CopiesDeclared'
    BY <2>1, <2>2, CopiesStay DEF ResearchInv, OnceGrew
  <2>4. DOMAIN calls' = Researchers
    BY <2>1 DEF ResearchInv
  <2> QED
    BY <2>2, <2>3, <2>4, OtherStep DEF ResearchInv
<1>3. ASSUME NEW c \in Researchers, SaveRun(c)
      PROVE  Keeps
  <2>1. /\ runs' = IF AcceptsManifest(calls[c].record)
                   THEN Replaced(runs, calls[c].record) ELSE runs
        /\ calls' = [calls EXCEPT ![c] = NoRecord]
        /\ UNCHANGED <<once, experiments, results>>
    BY <1>3 DEF SaveRun
  <2>2. DOMAIN calls' = Researchers
    BY <2>1 DEF ResearchInv
  <2>3. CopiesDeclared'
    BY <2>1, <2>2, CopiesStay DEF ResearchInv, OnceGrew
  <2>4. /\ UniqueIds(runs')
        /\ \A id : Known(runs, id) => Known(runs', id)
        /\ \A n \in runs : n.status \in TerminalRun =>
             \E o \in runs' : o.id = n.id /\ o.status \in TerminalRun
    BY <2>1, RunsReplaced DEF ResearchInv
  <2> QED
    BY <2>1, <2>2, <2>3, <2>4, OtherStep DEF ResearchInv
<1> QED
  BY <1>1, <1>2, <1>3 DEF RunsNext

\* The result store takes a set: what was reviewed or invalidated is kept.
LEMMA ResultsReplaced ==
    ASSUME ResearchInv, UNCHANGED <<once, experiments, runs>>,
           NEW r, AcceptsResultSet(r), ResultOK(r), results' = Replaced(results, r),
           CopiesDeclared', DOMAIN calls' = Researchers
    PROVE  Keeps
<1>1. UniqueIds(results)
  BY DEF ResearchInv
<1>2. OnceGrew
  BY DEF OnceGrew
<1>3. \A x \in results' : ValidResultSet(x) /\ ResultOK(x)'
  <2>1. \A x \in results' : x = r \/ x \in results
    BY <1>1, ReplacedIs
  <2> QED
    BY <1>2, <2>1, DeclaredStays DEF ResearchInv, ReferencesResolve, AcceptsResultSet
<1>4. ReferencesResolve'
  BY <1>2, <1>3, ReferencesStay
<1>5. ASSUME NEW x \in results, ~Mutable(x)
      PROVE  \E y \in results' : /\ y.id = x.id /\ SamePayload(x, y) /\ ~Mutable(y)
                                 /\ x.status = "INVALIDATED" => y = x
  <2>1. SamePayload(x, x)
    BY DEF SamePayload, BelongsTo
  <2>2. CASE x.id # r.id
    <3>1. x \in results'
      BY <1>1, <2>2, ReplacedIs
    <3> QED
      BY <1>5, <2>1, <3>1
  <2>3. CASE x.id = r.id
    <3>1. Known(results, r.id) /\ Get(results, r.id) = x
      BY <1>1, <2>3, GetOf
    <3>2. ResultTransition(x.status, r.status) /\ TerminalContentImmutable(x, r)
      BY <3>1 DEF AcceptsResultSet
    <3>3. r \in results'
      BY <1>1, ReplacedIs
    <3>4. CASE x.status = "INVALIDATED"
      <4>1. r = x
        BY <3>2, <3>4 DEF TerminalContentImmutable
      <4> QED
        BY <1>5, <2>1, <3>3, <4>1
    <3>5. CASE x.status = "REVIEWED"
      <4>1. r.status \in {"REVIEWED", "INVALIDATED"}
        BY <3>2, <3>5 DEF ResultTransition
      <4>2. SamePayload(x, r)
        BY <2>1, <3>2, <3>5, <4>1 DEF TerminalContentImmutable
      <4>3. ~Mutable(r)
        BY <4>1 DEF Mutable
      <4> QED
        BY <2>3, <3>3, <3>5, <4>2, <4>3
    <3> QED
      BY <1>5, <3>4, <3>5 DEF Mutable
  <2> QED
    BY <2>2, <2>3
<1>6. ConclusionsKept
  BY <1>5 DEF ConclusionsKept
<1> QED
  BY <1>1, <1>3, <1>4, <1>6, ReplacedIs DEF Keeps, ResearchInv

\* A researcher loads a result set and changes a copy of it.
LEMMA CopyMade ==
    ASSUME ResearchInv, NEW c \in Researchers, NEW x, ResultOK(x), Begin(c, "results", x)
    PROVE  Keeps
<1>1. /\ calls' = [calls EXCEPT ![c] = [store |-> "results", record |-> x]]
      /\ UNCHANGED <<once, experiments, runs, results>>
  BY DEF Begin
<1>2. DOMAIN calls' = Researchers
  BY <1>1 DEF ResearchInv
<1>3. CopiesDeclared'
  BY <1>1, <1>2, CopiesStay DEF ResearchInv, OnceGrew
<1> QED
  BY <1>1, <1>2, <1>3, OtherStep DEF ResearchInv

LEMMA KeepsResults == ResearchInv /\ ResultsNext => Keeps
<1> SUFFICES ASSUME ResearchInv, ResultsNext
             PROVE  Keeps
  OBVIOUS
<1>1. CASE CreateResultSet
  <2>1. PICK r \in ResultInputs : AcceptsResultSet(r) /\ results' = Replaced(results, r)
    BY <1>1 DEF CreateResultSet
  <2>2. UNCHANGED <<once, experiments, runs, calls>>
    BY <1>1 DEF CreateResultSet
  <2>3. ResultOK(r)
    BY ResultFieldsAssumption DEF ResultOK, Declared, ResultFields
  <2>4. CopiesDeclared'
    BY <2>2, CopiesStay DEF ResearchInv, OnceGrew
  <2> QED
    BY <2>1, <2>2, <2>3, <2>4, ResultsReplaced DEF ResearchInv
<1>2. ASSUME NEW c \in Researchers, RecordObservation(c)
      PROVE  Keeps
  <2>1. PICK r \in results, o \in ObservationInputs, now \in ClockTimes :
          /\ ObservationDeclared(o)
          /\ Begin(c, "results", [r EXCEPT !.observations = @ \cup {o}, !.updated_at = now])
    BY <1>2 DEF RecordObservation
  <2> DEFINE x == [r EXCEPT !.observations = @ \cup {o}, !.updated_at = now]
  <2>2. ResultOK(r)
    BY DEF ResearchInv
  <2>3. /\ DOMAIN x = ResultFields /\ x.id = r.id /\ x.artifact_ids = r.artifact_ids
        /\ x.observations = r.observations \cup {o}
    BY <2>2 DEF ResultOK, ResultFields
  <2>4. Begin(c, "results", x)
    BY <2>1
  <2> HIDE DEF x
  <2>5. ResultOK(x)
    BY <2>1, <2>2, <2>3 DEF ResultOK, Declared
  <2> QED
    BY <2>4, <2>5, CopyMade
<1>3. ASSUME NEW c \in Researchers, RecordAssessment(c)
      PROVE  Keeps
  <2>1. PICK r \in results, a \in AssessmentInputs, now \in ClockTimes :
          Begin(c, "results", [r EXCEPT !.assessments = @ \cup {a}, !.updated_at = now])
    BY <1>3 DEF RecordAssessment
  <2> DEFINE x == [r EXCEPT !.assessments = @ \cup {a}, !.updated_at = now]
  <2>2. ResultOK(r)
    BY DEF ResearchInv
  <2>3. /\ DOMAIN x = ResultFields /\ x.id = r.id /\ x.artifact_ids = r.artifact_ids
        /\ x.observations = r.observations
    BY <2>2 DEF ResultOK, ResultFields
  <2>4. Begin(c, "results", x)
    BY <2>1
  <2> HIDE DEF x
  <2>5. ResultOK(x)
    BY <2>2, <2>3 DEF ResultOK, Declared
  <2> QED
    BY <2>4, <2>5, CopyMade
<1>4. ASSUME NEW c \in Researchers, AttachArtifact(c)
      PROVE  Keeps
  <2>1. PICK r \in results, a \in once["artifacts"], now \in ClockTimes :
          Begin(c, "results", [r EXCEPT !.artifact_ids = @ \cup {a.id}, !.updated_at = now])
    BY <1>4 DEF AttachArtifact
  <2> DEFINE x == [r EXCEPT !.artifact_ids = @ \cup {a.id}, !.updated_at = now]
  <2>2. ResultOK(r)
    BY DEF ResearchInv
  <2>3. /\ DOMAIN x = ResultFields /\ x.id = r.id /\ x.observations = r.observations
        /\ x.artifact_ids = r.artifact_ids \cup {a.id}
    BY <2>2 DEF ResultOK, ResultFields
  <2>4. Begin(c, "results", x)
    BY <2>1
  <2> HIDE DEF x
  <2>5. Known(once["artifacts"], a.id)
    BY DEF Known
  <2>6. ResultOK(x)
    BY <2>2, <2>3, <2>5 DEF ResultOK, Declared
  <2> QED
    BY <2>4, <2>6, CopyMade
<1>5. ASSUME NEW c \in Researchers, UpdateResultStatus(c)
      PROVE  Keeps
  <2>1. PICK r \in results, now \in ClockTimes, to \in {"RECORDED", "REVIEWED", "INVALIDATED"} :
          Begin(c, "results", [r EXCEPT !.status = to, !.updated_at = now,
                                        !.notes = IF to = "INVALIDATED" THEN @ + 1 ELSE @])
    BY <1>5 DEF UpdateResultStatus
  <2> DEFINE x == [r EXCEPT !.status = to, !.updated_at = now,
                            !.notes = IF to = "INVALIDATED" THEN @ + 1 ELSE @]
  <2>2. ResultOK(r)
    BY DEF ResearchInv
  <2>3. /\ DOMAIN x = ResultFields /\ x.id = r.id /\ x.artifact_ids = r.artifact_ids
        /\ x.observations = r.observations
    BY <2>2 DEF ResultOK, ResultFields
  <2>4. Begin(c, "results", x)
    BY <2>1
  <2> HIDE DEF x
  <2>5. ResultOK(x)
    BY <2>2, <2>3 DEF ResultOK, Declared
  <2> QED
    BY <2>4, <2>5, CopyMade
<1>6. ASSUME NEW c \in Researchers, SaveResultSet(c)
      PROVE  Keeps
  <2> DEFINE r == calls[c].record
  <2>1. /\ calls[c] # NoRecord /\ calls[c].store = "results"
        /\ results' = IF AcceptsResultSet(r) THEN Replaced(results, r) ELSE results
        /\ calls' = [calls EXCEPT ![c] = NoRecord]
        /\ UNCHANGED <<once, experiments, runs>>
    BY <1>6 DEF SaveResultSet
  <2>2. DOMAIN calls' = Researchers
    BY <2>1 DEF ResearchInv
  <2>3. CopiesDeclared'
    BY <2>1, <2>2, CopiesStay DEF ResearchInv, OnceGrew
  <2>4. ResultOK(r)
    BY <2>1 DEF ResearchInv, CopiesDeclared
  <2> HIDE DEF r
  <2>5. CASE AcceptsResultSet(r)
    BY <2>1, <2>2, <2>3, <2>4, <2>5, ResultsReplaced
  <2>6. CASE ~AcceptsResultSet(r)
    BY <2>1, <2>2, <2>3, <2>6, OtherStep DEF ResearchInv
  <2> QED
    BY <2>5, <2>6
<1> QED
  BY <1>1, <1>2, <1>3, <1>4, <1>5, <1>6 DEF ResultsNext

-----------------------------------------------------------------------------
(* The theorems. *)

\* Every step keeps the invariant, and with it what was concluded.
LEMMA ResearchStep == ResearchInv /\ ResearchNext => Keeps
BY KeepsOnce, KeepsExperiment, KeepsRuns, KeepsResults DEF ResearchNext

LEMMA ResearchStart == ResearchInit => ResearchInv
BY DEF ResearchInit, ResearchInv, OnceStores, UniqueIds, CopiesDeclared, ReferencesResolve

LEMMA ResearchIdle == ResearchInv /\ UNCHANGED researchVars => ResearchInv'
BY DEF ResearchInv, researchVars, CopiesDeclared, ReferencesResolve, ResultOK, Declared,
   ObservationDeclared, PlanKnown, EvaluationPlanOf, LineageReferences, BundleFounded

\* Result sets and copies of them hold nothing that was not declared, and
\* every reference resolves, in every state of the registry.
THEOREM ResearchInductive == ResearchSpec => []ResearchInv
<1>1. ResearchInv /\ [ResearchNext]_researchVars => ResearchInv'
  BY ResearchStep, ResearchIdle DEF Keeps
<1> QED
  BY <1>1, ResearchStart, PTL DEF ResearchSpec

\* Reviewed, invalidated, archived and finished records stay as they were
\* concluded, and references resolve, whoever saves which stale copy
\* (the save of each store in research/in_memory.py).
THEOREM ResearchRecord == ResearchSpec => ResearchRecordHolds
<1>1. ResearchInv /\ [ResearchNext]_researchVars
        => [ConclusionsKept /\ ReferencesResolve']_researchVars
  BY ResearchStep DEF Keeps, ResearchInv
<1> QED
  BY <1>1, ResearchInductive, PTL DEF ResearchSpec, ResearchRecordHolds
=============================================================================
