--------------------------- MODULE ReplayPlanning ---------------------------
(***************************************************************************)
(* What a replay is made of before it runs: LocalReplayInputPlanner,        *)
(* LocalReplayTimelineBuilder, LocalReplayTimelineCoverageAuditor and       *)
(* LocalReplayTimelineCoverageDiffer over their stores.                     *)
(*                                                                          *)
(* Every store but that of the cursors keeps the first value saved under an *)
(* id and refuses another, so a call that only reads and then saves is one  *)
(* step.  A cursor changes, and several callers may move it: each of their  *)
(* calls loads it in one step and saves it in a later one.                  *)
(*                                                                          *)
(* Times are numbers, every caller reads a clock of its own; kinds and ids  *)
(* are numbers in the order of the strings they stand for.                  *)
(***************************************************************************)
EXTENDS Integers, Sequences, FiniteSets, SequencesExt, TLC

CONSTANTS
    PlanStore,      \* ReplayPlanStorePort: the replay plans, by id
    DatasetInputs,  \* the datasets that are registered, by id
    BatchInputs,    \* the batches that callers hand in
    TimelineIds,    \* ids under which timelines are built
    MaxEvents,      \* bound: the largest next_order_index asked for
    CursorIds,      \* ids under which cursors are created
    ReportIds,      \* ids under which coverage reports are generated
    DiffIds,        \* ids under which coverage diffs are generated
    Expectations,   \* what a coverage report may be asked to look for
    Callers,        \* callers of cursor operations
    Times,          \* values of the clocks
    None            \* absence of an optional value

ASSUME NumbersAssumption ==
    Times \subseteq Int /\ ReportIds \subseteq Int /\ MaxEvents \in Nat

ASSUME BatchesAssumption ==
    \A b \in BatchInputs :
        /\ b.batch_id \in Int /\ b.records \in Seq(Range(b.records))
        /\ \A r \in Range(b.records) :
            {r.record_id, r.event_time, r.kind, r.source_sequence} \subseteq Int

VARIABLES
    datasets,   \* InMemoryReplayInputDatasetStore: the ids registered
    batches,    \* InMemoryReplayInputBatchStore
    timelines,  \* InMemoryReplayTimelineStore
    cursors,    \* InMemoryReplayTimelineCursorStore
    reports,    \* InMemoryReplayTimelineCoverageReportStore
    diffs,      \* InMemoryReplayTimelineCoverageDiffStore
    moving      \* the cursor each caller is about to save

inputVars == <<datasets, batches>>
cursorVars == <<cursors, moving>>
auditVars == <<reports, diffs>>
planningVars == <<datasets, batches, timelines, cursors, reports, diffs, moving>>

Sorted == {"EVENT_TIME_THEN_SEQUENCE", "EVENT_TIME_THEN_KIND_THEN_SEQUENCE"}
Policies == Sorted \cup {"SOURCE_ORDER"}

Nothing == [id \in {} |-> None]

\* save: an equal value is kept, another one is a conflict and raises.
Saved(store, id, value) ==
    IF id \in DOMAIN store THEN store
    ELSE [i \in DOMAIN store \cup {id} |-> IF i = id THEN value ELSE store[i]]

\* Lexicographic order of keys of one length.
Before(k, l) ==
    \E i \in DOMAIN k : k[i] < l[i] /\ \A j \in 1 .. i - 1 : k[j] = l[j]

-----------------------------------------------------------------------------
(* Input datasets and batches.                                              *)

ValidDataset(d) == d.instruments # {} /\ d.start_at < d.end_at

\* register_input_dataset
RegisterInputDataset(id) ==
    /\ ValidDataset(DatasetInputs[id])
    /\ datasets' = datasets \cup {id}
    /\ UNCHANGED <<batches, timelines, cursorVars, auditVars>>

Inside(time, window) == window[1] <= time /\ time < window[2]

RecordKey(policy, r) ==
    IF policy = "EVENT_TIME_THEN_SEQUENCE"
    THEN <<r.event_time, r.source_sequence>>
    ELSE <<r.event_time, r.kind, r.source_sequence>>

\* _validate_record_ordering
OrderedRecords(records, policy) ==
    policy \in Sorted =>
        \A i, j \in DOMAIN records :
            i < j => ~Before(RecordKey(policy, records[j]), RecordKey(policy, records[i]))

ValidBatch(b) ==
    /\ b.records = << >> => b.validation_status = "PLANNED"
    /\ \A i, j \in DOMAIN b.records :
            b.records[i].record_id = b.records[j].record_id => i = j
    /\ \A i \in DOMAIN b.records : Inside(b.records[i].event_time, b.temporal_window)
    /\ OrderedRecords(b.records, b.ordering_policy)

\* validate_batch_against_replay_plan
FitsPlan(b) ==
    /\ b.replay_plan_id \in DOMAIN PlanStore
    /\ b.input_dataset_id \in datasets
    /\ LET p == PlanStore[b.replay_plan_id]
       IN  /\ p.data_source_kind = "DATASET_SNAPSHOT" =>
                    DatasetInputs[b.input_dataset_id].dataset_id = p.dataset_id
           /\ b.temporal_window \in p.temporal_windows

\* create_input_batch
CreateInputBatch(b) ==
    /\ ValidBatch(b) /\ FitsPlan(b)
    /\ batches' = Saved(batches, b.batch_id, b)
    /\ UNCHANGED <<datasets, timelines, cursorVars, auditVars>>

-----------------------------------------------------------------------------
(* Timelines.                                                               *)

\* The conditions on one batch of a timeline.
Usable(id, plan, window, policy) ==
    /\ id \in DOMAIN batches
    /\ batches[id].replay_plan_id = plan
    /\ batches[id].temporal_window = window
    /\ batches[id].ordering_policy = policy
    /\ batches[id].validation_status = "VALIDATED"

\* The records of one batch as events, before they have their order_index,
\* which is their place in the timeline.
EventsOf(b) ==
    [i \in DOMAIN b.records |->
        [batch_id |-> b.batch_id, input_dataset_id |-> b.input_dataset_id,
         record_id |-> b.records[i].record_id, kind |-> b.records[i].kind,
         instrument |-> b.records[i].instrument,
         event_time |-> b.records[i].event_time,
         source_sequence |-> b.records[i].source_sequence]]

\* Mutant: ties are not broken by event_id.
EventKeyTied(policy, e) == RecordKey(policy, e)

\* The sort keys; the event_id is made of batch_id and record_id.
EventKey(policy, e) == RecordKey(policy, e) \o <<e.batch_id, e.record_id>>

\* An order of the places of a list in which no later key is smaller.
SortsBy(policy, events, p) ==
    /\ IsInjective(p)
    /\ \A i, j \in DOMAIN p : i < j =>
            ~Before(EventKey(policy, events[p[j]]), EventKey(policy, events[p[i]]))

InOrder(policy, events) ==
    LET places == DOMAIN events
        p == CHOOSE p \in [places -> places] : SortsBy(policy, events, p)
    IN  IF policy \in Sorted THEN [i \in places |-> events[p[i]]] ELSE events

\* The validators of ReplayTimeline that its builder could break.
ValidTimeline(t) ==
    /\ t.status = "VALIDATED" => t.events # << >>
    /\ \A i, j \in DOMAIN t.events :
            /\ t.events[i].batch_id = t.events[j].batch_id
            /\ t.events[i].record_id = t.events[j].record_id
            => i = j
    /\ t.events # << >> =>
            {t.events[i].batch_id : i \in DOMAIN t.events} = Range(t.input_batch_ids)
    /\ \A i \in DOMAIN t.events : Inside(t.events[i].event_time, t.temporal_window)
    /\ t.ordering_policy \in Sorted =>
            \A i, j \in DOMAIN t.events : i < j =>
                ~Before(EventKey(t.ordering_policy, t.events[j]),
                        EventKey(t.ordering_policy, t.events[i]))

TimelineOf(plan, ids, window, policy, status, now) ==
    [replay_plan_id |-> plan, temporal_window |-> window,
     ordering_policy |-> policy, input_batch_ids |-> ids,
     events |-> InOrder(policy,
                    FlattenSeq([i \in DOMAIN ids |-> EventsOf(batches[ids[i]])])),
     created_at |-> now, status |-> status]

\* build_timeline
BuildTimeline(id, plan, ids, window, policy, status) ==
    /\ IsInjective(ids)
    /\ plan \in DOMAIN PlanStore
    /\ window \in PlanStore[plan].temporal_windows
    /\ \A i \in DOMAIN ids : Usable(ids[i], plan, window, policy)
    /\ \E now \in Times :
        LET t == TimelineOf(plan, ids, window, policy, status, now)
        IN  /\ ValidTimeline(t)
            /\ timelines' = Saved(timelines, id, t)
    /\ UNCHANGED <<inputVars, cursorVars, auditVars>>

-----------------------------------------------------------------------------
(* Cursors.                                                                 *)

Idle == [cursor |-> None]

CursorTransitions ==
    [CREATED |-> {"ADVANCED", "COMPLETED", "INVALIDATED"},
     ADVANCED |-> {"ADVANCED", "COMPLETED", "INVALIDATED"},
     COMPLETED |-> {"INVALIDATED"},
     INVALIDATED |-> {}]

\* Mutant: any cursor that was loaded is stored.
StoresCursorBlindly(old, new) == TRUE

\* InMemoryReplayTimelineCursorStore.save over an existing cursor
StoresCursor(old, new) ==
    /\ old.timeline_id = new.timeline_id
    /\ old.updated_at <= new.updated_at
    /\ new.status \in CursorTransitions[old.status]
    /\ old.status = "ADVANCED" /\ new.status = "ADVANCED" =>
            old.next_order_index <= new.next_order_index

\* create_cursor
CreateCursor(id, t) ==
    /\ t \in DOMAIN timelines
    /\ \E now \in Times :
        cursors' = Saved(cursors, id,
            [timeline_id |-> t, status |-> "CREATED", next_order_index |-> 0,
             updated_at |-> now])
    /\ UNCHANGED <<inputVars, timelines, auditVars, moving>>

\* The cursor a call will save, made from the one it loads.
Loaded(c, id, status, next) ==
    /\ moving[c] = Idle /\ id \in DOMAIN cursors
    /\ \E now \in Times :
        moving' = [moving EXCEPT ![c] =
            [cursor |-> id,
             value |-> [timeline_id |-> cursors[id].timeline_id, status |-> status,
                        next_order_index |-> next, updated_at |-> now]]]
    /\ UNCHANGED <<inputVars, timelines, cursors, auditVars>>

\* The event count of the cursor's timeline, if the store still has it.
EventCount(id) ==
    {Len(timelines[t].events) : t \in {cursors[id].timeline_id} \cap DOMAIN timelines}

\* advance_cursor, up to its save
AdvanceCursor(c, id, next) ==
    /\ id \in DOMAIN cursors
    /\ cursors[id].next_order_index <= next
    /\ \A n \in EventCount(id) : next <= n
    /\ Loaded(c, id, "ADVANCED", next)

\* complete_cursor, up to its save
CompleteCursor(c, id, next) ==
    /\ id \in DOMAIN cursors
    /\ \A n \in EventCount(id) : next = n
    /\ Loaded(c, id, "COMPLETED", next)

\* invalidate_cursor, up to its save
InvalidateCursor(c, id) ==
    /\ id \in DOMAIN cursors
    /\ Loaded(c, id, "INVALIDATED", cursors[id].next_order_index)

\* The save that ends each of them; a refused one raises.
SaveCursor(c) ==
    /\ moving[c] # Idle
    /\ LET m == moving[c]
       IN  cursors' = IF StoresCursor(cursors[m.cursor], m.value)
                      THEN [cursors EXCEPT ![m.cursor] = m.value] ELSE cursors
    /\ moving' = [moving EXCEPT ![c] = Idle]
    /\ UNCHANGED <<inputVars, timelines, auditVars>>

-----------------------------------------------------------------------------
(* Coverage reports.                                                        *)

\* _count_events
CountBy(keys) ==
    [k \in Range(keys) |-> Cardinality({i \in DOMAIN keys : keys[i] = k})]

KindsOf(events) == [i \in DOMAIN events |-> events[i].kind]
InstrumentsOf(events) == [i \in DOMAIN events |-> events[i].instrument]
DatasetsOf(events) == [i \in DOMAIN events |-> events[i].input_dataset_id]

\* _event_time_bounds
TimesOf(events) == {events[i].event_time : i \in DOMAIN events}
FirstEventAt(events) == IF events = << >> THEN None ELSE Min(TimesOf(events))
LastEventAt(events) == IF events = << >> THEN None ELSE Max(TimesOf(events))

Item(kind, key, severity) == [kind |-> kind, key |-> key, severity |-> severity]

When(condition, item) == IF condition THEN {item} ELSE {}

\* _generate_missing_kind_issues, _generate_missing_instrument_issues
MissingIssues(kind, expected, present) ==
    {Item(kind, k, "WARNING") : k \in expected \ present}

\* _generate_gap_issues; max_gap is None when no threshold was given.
GapIssues(events, max_gap) ==
    {Item("EVENT_TIME_GAP", i, "WARNING")
        : i \in {j \in DOMAIN events \ {1} :
                    /\ max_gap # None
                    /\ events[j].event_time - events[j - 1].event_time > max_gap}}

\* _generate_coverage_gap_issues
WindowIssues(events, window) ==
    IF events = << >> THEN {}
    ELSE When(FirstEventAt(events) > window[1], Item("START_COVERAGE_GAP", None, "WARNING"))
         \cup When(LastEventAt(events) < window[2], Item("END_COVERAGE_GAP", None, "WARNING"))

IssuesOf(t, x) ==
    When(t.events = << >>, Item("EMPTY_TIMELINE", None, "ERROR"))
    \cup MissingIssues("MISSING_EXPECTED_KIND", x.kinds, Range(KindsOf(t.events)))
    \cup MissingIssues("MISSING_EXPECTED_INSTRUMENT", x.instruments,
                       Range(InstrumentsOf(t.events)))
    \cup GapIssues(t.events, x.max_event_gap_seconds)
    \cup WindowIssues(t.events, t.temporal_window)

\* _count_by_severity
SeverityCounts(items) ==
    [s \in {i.severity : i \in items} |-> Cardinality({i \in items : i.severity = s})]

ReportOf(id, x, now) ==
    LET t == timelines[id]
    IN  [timeline_id |-> id, replay_plan_id |-> t.replay_plan_id, generated_at |-> now,
         total_events |-> Len(t.events),
         first_event_at |-> FirstEventAt(t.events), last_event_at |-> LastEventAt(t.events),
         by_kind |-> CountBy(KindsOf(t.events)),
         by_instrument |-> CountBy(InstrumentsOf(t.events)),
         by_dataset |-> CountBy(DatasetsOf(t.events)),
         by_severity |-> SeverityCounts(IssuesOf(t, x)),
         expected |-> [kinds |-> x.kinds, instruments |-> x.instruments]]

\* generate_report
GenerateReport(r, t, x) ==
    /\ x.max_event_gap_seconds # None => x.max_event_gap_seconds > 0
    /\ t \in DOMAIN timelines
    /\ \E now \in Times : reports' = Saved(reports, r, ReportOf(t, x, now))
    /\ UNCHANGED <<inputVars, timelines, cursorVars, diffs>>

-----------------------------------------------------------------------------
(* Coverage diffs.                                                          *)

CountOf(counts, k) == IF k \in DOMAIN counts THEN counts[k] ELSE 0

\* _diff_total_events
TotalItems(b, c) ==
    When(b.total_events # c.total_events,
         Item("TOTAL_EVENT_COUNT_CHANGED", None,
              IF c.total_events = 0 THEN "ERROR"
              ELSE IF c.total_events < b.total_events THEN "WARNING" ELSE "INFO"))

\* _diff_kind_counts, _diff_instrument_counts, _diff_dataset_counts
CountItems(kind, b, c) ==
    {Item(kind, k, IF CountOf(c, k) < CountOf(b, k) THEN "WARNING" ELSE "INFO")
        : k \in {l \in DOMAIN b \cup DOMAIN c : CountOf(b, l) # CountOf(c, l)}}

\* _diff_issue_severity_counts
SeverityItems(b, c) ==
    {Item("ISSUE_SEVERITY_COUNT_CHANGED", s,
        IF CountOf(c, s) > CountOf(b, s) THEN s ELSE "INFO")
        : s \in {l \in DOMAIN b \cup DOMAIN c : CountOf(b, l) # CountOf(c, l)}}

\* _diff_expected_kinds, _diff_expected_instruments
ExpectedItems(kind, b, c) == {Item(kind, k, "INFO") : k \in (b \ c) \cup (c \ b)}

\* _diff_event_times
TimeItems(b, c) ==
    When(b.first_event_at # c.first_event_at, Item("FIRST_EVENT_TIME_CHANGED", None, "INFO"))
    \cup When(b.last_event_at # c.last_event_at, Item("LAST_EVENT_TIME_CHANGED", None, "INFO"))

DiffItems(b, c) ==
    TotalItems(b, c)
    \cup CountItems("KIND_COUNT_CHANGED", b.by_kind, c.by_kind)
    \cup CountItems("INSTRUMENT_COUNT_CHANGED", b.by_instrument, c.by_instrument)
    \cup CountItems("DATASET_COUNT_CHANGED", b.by_dataset, c.by_dataset)
    \cup SeverityItems(b.by_severity, c.by_severity)
    \cup ExpectedItems("EXPECTED_KIND_SET_CHANGED", b.expected.kinds, c.expected.kinds)
    \cup ExpectedItems("EXPECTED_INSTRUMENT_SET_CHANGED",
                       b.expected.instruments, c.expected.instruments)
    \cup TimeItems(b, c)

\* _build_diff_summary
Has(items, severity) == \E i \in items : i.severity = severity

DiffOf(b, c, now) ==
    LET items == DiffItems(reports[b], reports[c])
    IN  [baseline |-> b, candidate |-> c,
         baseline_replay_plan_id |-> reports[b].replay_plan_id,
         candidate_replay_plan_id |-> reports[c].replay_plan_id,
         generated_at |-> now, items |-> items,
         has_errors |-> Has(items, "ERROR"), has_warnings |-> Has(items, "WARNING")]

\* generate_diff
GenerateDiff(d, b, c) ==
    /\ b # c /\ {b, c} \subseteq DOMAIN reports
    /\ \E now \in Times : diffs' = Saved(diffs, d, DiffOf(b, c, now))
    /\ UNCHANGED <<inputVars, timelines, cursorVars, reports>>

-----------------------------------------------------------------------------
PlanningInit ==
    /\ datasets = {} /\ batches = Nothing /\ timelines = Nothing
    /\ cursors = Nothing /\ reports = Nothing /\ diffs = Nothing
    /\ moving = [c \in Callers |-> Idle]

\* The lists of batch ids that build_timeline accepts.
BatchLists(plan, window, policy) ==
    LET usable == {b \in DOMAIN batches : Usable(b, plan, window, policy)}
    IN  {ids \in UNION {[1 .. n -> usable] : n \in 0 .. Cardinality(usable)} :
            IsInjective(ids)}

\* A call under an id that is taken changes nothing: it returns or raises.
Free(ids, store) == ids \ DOMAIN store

TimelineNext ==
    \/ \E id \in DOMAIN DatasetInputs : RegisterInputDataset(id)
    \/ \E b \in BatchInputs : CreateInputBatch(b)
    \/ \E id \in Free(TimelineIds, timelines), plan \in DOMAIN PlanStore,
            policy \in Policies, status \in {"BUILT", "VALIDATED"} :
        \E window \in PlanStore[plan].temporal_windows :
        \E ids \in BatchLists(plan, window, policy) :
            BuildTimeline(id, plan, ids, window, policy, status)

CursorNext ==
    \/ \E id \in Free(CursorIds, cursors), t \in TimelineIds : CreateCursor(id, t)
    \/ \E c \in Callers, id \in CursorIds, next \in 0 .. MaxEvents :
            AdvanceCursor(c, id, next) \/ CompleteCursor(c, id, next)
    \/ \E c \in Callers, id \in CursorIds : InvalidateCursor(c, id)
    \/ \E c \in Callers : SaveCursor(c)

AuditNext ==
    \/ \E r \in Free(ReportIds, reports), t \in TimelineIds, x \in Expectations :
            GenerateReport(r, t, x)
    \/ \E d \in Free(DiffIds, diffs), b, c \in ReportIds : GenerateDiff(d, b, c)

PlanningNext == TimelineNext \/ CursorNext \/ AuditNext

-----------------------------------------------------------------------------
(* Properties.                                                              *)

\* build_timeline (replay/local.py): a timeline holds the records of its
\* batches, each once, and two timelines of the same batches under a sorting
\* policy have the same events in the same order, whatever the order in which
\* the batches were named and whenever they were built.
TimelinesDeterministic ==
    /\ \A t \in DOMAIN timelines :
        LET l == timelines[t]
        IN  /\ IsInjective(l.events)
            /\ Range(l.events) =
                    UNION {Range(EventsOf(batches[b])) : b \in Range(l.input_batch_ids)}
    /\ \A s, t \in DOMAIN timelines :
        /\ timelines[s].ordering_policy = timelines[t].ordering_policy
        /\ timelines[s].ordering_policy \in Sorted
        /\ Range(timelines[s].input_batch_ids) = Range(timelines[t].input_batch_ids)
        => timelines[s].events = timelines[t].events

MovesCursorsForward ==
    \A id \in DOMAIN cursors : cursors[id].timeline_id \in DOMAIN timelines =>
        LET old == cursors[id]
            new == cursors'[id]
        IN  new # old =>
            /\ new.next_order_index < old.next_order_index => new.status = "INVALIDATED"
            /\ new.status = "COMPLETED" => {new.next_order_index} = EventCount(id)
            /\ old.status = "COMPLETED" => new.status = "INVALIDATED"
            /\ old.status # "INVALIDATED"

\* InMemoryReplayTimelineCursorStore.save with advance_cursor, complete_cursor
\* and invalidate_cursor of several callers in flight: while its timeline is
\* stored a cursor never moves back except by being invalidated, COMPLETED
\* stands at the end of the timeline and only leaves to INVALIDATED, which is
\* final.
CursorForward == [][MovesCursorsForward]_cursors
=============================================================================
