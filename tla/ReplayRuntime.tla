--------------------------- MODULE ReplayRuntime ---------------------------
(***************************************************************************)
(* LocalDeterministicReplayRuntime over the stores of replay runs, receipts *)
(* and handler outputs, for one run_id.  Several callers (processes with a  *)
(* runtime of their own) share the stores.  A call loads the run, plans,    *)
(* writes outputs and receipts one by one and replaces the run only if its  *)
(* revision is still the one loaded; a call may die between any two of      *)
(* these steps, and nothing it wrote is undone.                             *)
(*                                                                          *)
(* An event is known by its order_index, which its event_id goes with.      *)
(* processed_event_count and last_processed_event_id are left out: the      *)
(* validators accept only the values that next_event_index determines; so   *)
(* are started_at, paused_at and completed_at, the updated_at of the step   *)
(* that sets them.                                                          *)
(***************************************************************************)
EXTENDS Naturals, Sequences

CONSTANTS
    Callers,      \* runtimes that may be called concurrently
    Handlers,     \* replay event handlers, numbered in the order of their ids
    Dispatchers,  \* handler registries; the fingerprint is the set of handlers
    Supports,     \* the event kinds each handler supports
    Answers,      \* what a handler may return for an event of a kind
    Bindings,     \* arguments of create_run: manifest, timeline, fingerprint
    Held,         \* what the stores hold for each of them
    Times,        \* values of the clock
    MaxEvents,    \* the largest max_events of a step
    MaxPauses,    \* bound: calls of pause_run
    MaxDeaths     \* bound: calls that die

\* Whether the manifest is PLANNED,
\* the timeline BUILT, the fingerprint GENERATED for this timeline and plan and
\* listed in the manifest, when each was made, and the kinds of the events.
IsHeld(b) ==
    /\ b.planned \in BOOLEAN /\ b.built \in BOOLEAN /\ b.fingerprinted \in BOOLEAN
    /\ {b.timeline_at, b.fingerprint_at, b.manifest_at} \subseteq Times
    /\ b.events \in Seq(UNION {Supports[h] : h \in Handlers})

ASSUME ReplayAssumption ==
    /\ Handlers \subseteq Nat
    /\ Dispatchers \subseteq SUBSET Handlers
    /\ Times \subseteq Nat \ {0}
    /\ \A b \in Bindings : IsHeld(Held[b])
    /\ \A h \in Handlers : \A k \in Supports[h] : Answers[h][k] # {}
    /\ MaxEvents \in Nat \ {0} /\ MaxPauses \in Nat /\ MaxDeaths \in Nat

VARIABLES
    run,       \* ReplayRunStateStore: the state of the run
    receipts,  \* ReplayEventDispatchReceiptStore
    outputs,   \* ReplayEventOutputRecordStore
    call,      \* what each caller is doing
    results,   \* the ReplayRunStepResults that step_run returned
    pauses,    \* calls of pause_run so far
    deaths     \* calls that died so far

vars == <<run, receipts, outputs, call, results, pauses, deaths>>

-----------------------------------------------------------------------------
(* Stored values.                                                           *)

NoRun == [status |-> "ABSENT"]

Statuses == {"CREATED", "RUNNING", "PAUSED", "COMPLETED"}

\* ReplayRunState
IsRunState(s) ==
    /\ s.binding \in Bindings /\ s.dispatcher \in Dispatchers
    /\ s.status \in Statuses /\ s.revision \in Nat
    /\ s.next_event_index \in 0 .. Len(Held[s.binding].events)
    /\ {s.created_at, s.updated_at} \subseteq Times

Total(s) == Len(Held[s.binding].events)

\* The handlers a registry selects for an event, and those whose answer to it
\* is always the same.
Selected(dispatcher, kind) == {h \in dispatcher : kind \in Supports[h]}

KindAt(s, i) == Held[s.binding].events[i + 1]

Deterministic(s, i) ==
    \A h \in Selected(s.dispatcher, KindAt(s, i)) :
        \A x, y \in Answers[h][KindAt(s, i)] : x = y

\* plan_dispatch: the output records of one event for given answers.
OutputsOf(i, answers) ==
    UNION {{[index |-> i, handler |-> h, n |-> n, payload |-> answers[h][n]]
              : n \in DOMAIN answers[h]} : h \in DOMAIN answers}

\* Every way the selected handlers may answer one event.
AnswersTo(dispatcher, kind) ==
    {f \in [Selected(dispatcher, kind) ->
                UNION {Answers[h][kind] : h \in Selected(dispatcher, kind)}] :
        \A h \in Selected(dispatcher, kind) : f[h] \in Answers[h][kind]}

\* ReplayEventDispatchReceipt; its id is made of the run, index and event.
ReceiptOf(s, i, answers) ==
    [index |-> i, binding |-> s.binding, dispatcher |-> s.dispatcher,
     handlers |-> DOMAIN answers, outputs |-> OutputsOf(i, answers)]

\* The order of the output records in a plan.
NotAfter(o, p) ==
    \/ o.index < p.index
    \/ o.index = p.index /\ o.handler < p.handler
    \/ o.index = p.index /\ o.handler = p.handler /\ o.n <= p.n

Idle == [op |-> "none"]

-----------------------------------------------------------------------------
(* Validators of domain/replay.py.                                          *)

\* _validate_replay_run_temporal_order, _validate_replay_run_status_rules
ValidRunState(s) ==
    /\ s.created_at <= s.updated_at
    /\ s.status = "CREATED" =>
            s.revision = 0 /\ s.updated_at = s.created_at /\ s.next_event_index = 0
    /\ s.status \in {"RUNNING", "PAUSED"} => s.next_event_index < Total(s)
    /\ s.status = "COMPLETED" => s.next_event_index = Total(s)

\* _validate_replay_run_state_status_transition
StatusTransition(prev, cur) ==
    \/ /\ cur.next_event_index = prev.next_event_index
       /\ \/ prev.status = "CREATED" /\ cur.status = "RUNNING" /\ Total(cur) > 0
          \/ prev.status = "CREATED" /\ cur.status = "COMPLETED" /\ Total(cur) = 0
          \/ prev.status = "RUNNING" /\ cur.status = "PAUSED"
          \/ prev.status = "PAUSED" /\ cur.status = "RUNNING"
    \/ /\ cur.next_event_index > prev.next_event_index
       /\ prev.status = "RUNNING"
       /\ cur.status = IF cur.next_event_index < Total(cur) THEN "RUNNING" ELSE "COMPLETED"

\* validate_replay_run_state_transition
ValidTransition(prev, cur) ==
    /\ cur.binding = prev.binding /\ cur.dispatcher = prev.dispatcher
    /\ cur.created_at = prev.created_at
    /\ cur.revision = prev.revision + 1
    /\ cur.updated_at >= prev.updated_at
    /\ StatusTransition(prev, cur)

-----------------------------------------------------------------------------
(* The initial state, and create_run.                                       *)

TypeOK ==
    /\ run # NoRun => IsRunState(run)
    /\ \A r \in receipts :
            r.binding \in Bindings /\ r.dispatcher \in Dispatchers /\ r.index < Total(r)
    /\ \A o \in outputs : o.handler \in Handlers
    /\ \A c \in Callers :
            call[c].op \in {"none", "create", "start", "step", "pause", "resume"}
    /\ pauses \in 0 .. MaxPauses
    /\ deaths \in 0 .. MaxDeaths

Init ==
    /\ run = NoRun
    /\ receipts = {} /\ outputs = {} /\ results = {}
    /\ call = [c \in Callers |-> Idle]
    /\ pauses = 0 /\ deaths = 0

Starts(c, what) == call[c] = Idle /\ call' = [call EXCEPT ![c] = what]

Ends(c) == call' = [call EXCEPT ![c] = Idle]

\* The checks of create_run on the manifest, the timeline and the fingerprint.
Creatable(b, now) ==
    LET held == Held[b]
    IN  /\ held.planned /\ held.built /\ held.fingerprinted
        /\ held.timeline_at <= held.fingerprint_at
        /\ held.fingerprint_at <= held.manifest_at
        /\ held.manifest_at <= now

Created(b, d, now) ==
    [binding |-> b, dispatcher |-> d, status |-> "CREATED", revision |-> 0,
     next_event_index |-> 0, created_at |-> now, updated_at |-> now]

\* No run is stored yet; a stored one is returned, or refused, without a write.
CreateRun(c, b, d, now) ==
    /\ run = NoRun
    /\ Creatable(b, now)
    /\ ValidRunState(Created(b, d, now))
    /\ Starts(c, [op |-> "create", new |-> Created(b, d, now)])
    /\ UNCHANGED <<run, receipts, outputs, results, pauses, deaths>>

\* InMemoryReplayRunStateStore.create: another state under the run_id raises.
StoreCreate(c) ==
    /\ call[c].op = "create"
    /\ run' = IF run = NoRun THEN call[c].new ELSE run
    /\ Ends(c)
    /\ UNCHANGED <<receipts, outputs, results, pauses, deaths>>

-----------------------------------------------------------------------------
(* start_run, pause_run and resume_run, up to the replacement.              *)

\* Mutant: any handler registry may go on with the run.
LoadsAnyDispatcher(d, now, status) ==
    /\ run # NoRun /\ run.status = status
    /\ now >= run.updated_at

\* _load_state, _require_matching_dispatcher, _require_non_regressing_runtime_time
Loads(d, now, status) ==
    /\ run # NoRun /\ run.status = status
    /\ run.dispatcher = d
    /\ now >= run.updated_at

Touched(s, now) == [s EXCEPT !.revision = @ + 1, !.updated_at = now]

Started(s, now) ==
    [Touched(s, now) EXCEPT !.status = IF Total(s) = 0 THEN "COMPLETED" ELSE "RUNNING"]

Paused(s, now) == [Touched(s, now) EXCEPT !.status = "PAUSED"]

Resumed(s, now) == [Touched(s, now) EXCEPT !.status = "RUNNING"]

\* A call that only replaces the run.
Changes(c, op, new) ==
    /\ ValidRunState(new)
    /\ Starts(c, [op |-> op, expected |-> run.revision, new |-> new, checked |-> TRUE,
                  plan |-> {}, outs |-> {}, recs |-> {}])
    /\ UNCHANGED <<run, receipts, outputs, results, deaths>>

StartRun(c, d, now) ==
    Loads(d, now, "CREATED") /\ Changes(c, "start", Started(run, now)) /\ UNCHANGED pauses

PauseRun(c, d, now) ==
    /\ Loads(d, now, "RUNNING")
    /\ Changes(c, "pause", Paused(run, now))
    /\ pauses < MaxPauses /\ pauses' = pauses + 1

ResumeRun(c, d, now) ==
    Loads(d, now, "PAUSED") /\ Changes(c, "resume", Resumed(run, now)) /\ UNCHANGED pauses

-----------------------------------------------------------------------------
(* step_run                                                                 *)

Stepped(s, count, now) ==
    LET next == s.next_event_index + count
    IN  [Touched(s, now) EXCEPT
            !.next_event_index = next,
            !.status = IF next = Total(s) THEN "COMPLETED" ELSE "RUNNING"]

\* The events of a step: at most max_events of those that remain.
Count(max_events) ==
    LET remaining == Total(run) - run.next_event_index
    IN  IF max_events < remaining THEN max_events ELSE remaining

\* Everything up to the preflight: the handlers answer, and the plans, receipts
\* and the new state are built.  A handler that raises ends the call.
StepRun(c, d, now, max_events) ==
    /\ Loads(d, now, "RUNNING")
    /\ Count(max_events) > 0
    /\ LET indexes == run.next_event_index .. run.next_event_index + Count(max_events) - 1
           answerable == UNION {AnswersTo(d, KindAt(run, i)) : i \in indexes}
       IN  \E answers \in [indexes -> answerable] :
            /\ \A i \in indexes : answers[i] \in AnswersTo(d, KindAt(run, i))
            /\ LET plan == {ReceiptOf(run, i, answers[i]) : i \in indexes}
                   new == Stepped(run, Count(max_events), now)
               IN  /\ ValidRunState(new)
                   /\ Starts(c, [op |-> "step", expected |-> run.revision, new |-> new,
                                 from |-> run.next_event_index,
                                 checked |-> FALSE, plan |-> plan,
                                 outs |-> UNION {r.outputs : r \in plan}, recs |-> plan])
    /\ UNCHANGED <<run, receipts, outputs, results, pauses, deaths>>

\* Mutant: a receipt is refused even if it is the stored one.
ConflictsAlways(r) == \E old \in receipts : old.index = r.index

\* InMemoryReplayEventDispatchReceiptStore.save: another receipt under the id.
Conflicts(r) == \E old \in receipts : old.index = r.index /\ old # r

\* _preflight_append_only_writes.  An output id is a digest of the record, so
\* that only receipts can conflict.
Preflight(c) ==
    /\ call[c].op = "step" /\ ~call[c].checked
    /\ IF \E r \in call[c].recs : Conflicts(r)
       THEN Ends(c)
       ELSE call' = [call EXCEPT ![c].checked = TRUE]
    /\ UNCHANGED <<run, receipts, outputs, results, pauses, deaths>>

Writing(c) == call[c].op \notin {"none", "create"} /\ call[c].checked

\* The output records are saved first, in the order of the plan.
SaveOutput(c) ==
    /\ Writing(c)
    /\ \E o \in call[c].outs :
        /\ \A p \in call[c].outs : NotAfter(o, p)
        /\ outputs' = outputs \cup {o}
        /\ call' = [call EXCEPT ![c].outs = @ \ {o}]
    /\ UNCHANGED <<run, receipts, results, pauses, deaths>>

\* Mutant: receipts do not wait for the outputs.
OutputsSavedOrNot(c) == TRUE

OutputsSaved(c) == call[c].outs = {}

\* Then the receipts; the save raises if another caller put a different one.
SaveReceipt(c) ==
    /\ Writing(c) /\ OutputsSaved(c)
    /\ \E r \in call[c].recs :
        /\ \A q \in call[c].recs : r.index <= q.index
        /\ IF Conflicts(r)
           THEN Ends(c) /\ receipts' = receipts
           ELSE /\ receipts' = receipts \cup {r}
                /\ call' = [call EXCEPT ![c].recs = @ \ {r}]
    /\ UNCHANGED <<run, outputs, results, pauses, deaths>>

\* Mutant: the run moves on before the receipts are saved.
WrittenOutputs(c) == Writing(c) /\ call[c].outs = {}

\* Everything the step writes is written.
Written(c) == Writing(c) /\ call[c].outs = {} /\ call[c].recs = {}

\* Mutant: the last one to replace the run wins.
ReplacesBlindly(expected, new) == TRUE

\* InMemoryReplayRunStateStore.replace
Replaces(expected, new) == run.revision = expected /\ ValidTransition(run, new)

\* ReplayRunStepResult: the events a step processed and their receipts.
StepResult(c) ==
    [from |-> call[c].from, to |-> call[c].new.next_event_index,
     receipts |-> call[c].plan]

\* Last, the run is replaced, or found stale.  A step then returns its result.
Replace(c) ==
    /\ Written(c)
    /\ IF Replaces(call[c].expected, call[c].new)
       THEN /\ run' = call[c].new
            /\ results' = IF call[c].op = "step" THEN results \cup {StepResult(c)} ELSE results
       ELSE UNCHANGED <<run, results>>
    /\ Ends(c)
    /\ UNCHANGED <<receipts, outputs, pauses, deaths>>

\* The process dies, or a store raises, with the call unfinished.
Die(c) ==
    /\ call[c] # Idle
    /\ deaths < MaxDeaths /\ deaths' = deaths + 1
    /\ Ends(c)
    /\ UNCHANGED <<run, receipts, outputs, results, pauses>>

-----------------------------------------------------------------------------
Continue(c) == StoreCreate(c) \/ Preflight(c) \/ SaveOutput(c) \/ SaveReceipt(c) \/ Replace(c)

\* Calls of a runtime with the run's own handlers and a clock that is not
\* behind: the loop around a replay makes them again and again.
Latest == CHOOSE t \in Times : \A u \in Times : u <= t

Resumes == \E c \in Callers : ResumeRun(c, run.dispatcher, Latest)

Steps == \E c \in Callers : StepRun(c, run.dispatcher, Latest, 1)

Next ==
    \/ \E c \in Callers, d \in Dispatchers, now \in Times :
        \/ \E b \in Bindings : CreateRun(c, b, d, now)
        \/ StartRun(c, d, now)
        \/ PauseRun(c, d, now)
        \/ ResumeRun(c, d, now)
        \/ \E m \in 1 .. MaxEvents : StepRun(c, d, now, m)
    \/ \E c \in Callers : StoreCreate(c)
    \/ \E c \in Callers : Preflight(c)
    \/ \E c \in Callers : SaveOutput(c)
    \/ \E c \in Callers : SaveReceipt(c)
    \/ \E c \in Callers : Replace(c)
    \/ \E c \in Callers : Die(c)

Spec == Init /\ [][Next]_vars

\* A call under way goes on, and somebody keeps stepping a running run and
\* resumes a paused one: what the loop around a replay is for.
Fairness ==
    /\ \A c \in Callers : WF_vars(Continue(c))
    /\ WF_vars(run # NoRun /\ Resumes)
    /\ WF_vars(run # NoRun /\ Steps)

FairSpec == Spec /\ Fairness

-----------------------------------------------------------------------------
(* Properties.                                                              *)

\* However many callers race and wherever they die, the run has moved past an
\* event only with exactly one receipt for it, made under the run's own
\* binding and dispatcher.
ProgressHasReceipts ==
    run # NoRun =>
        \A i \in 0 .. run.next_event_index - 1 :
            \E r \in receipts :
                /\ r.index = i /\ r.binding = run.binding /\ r.dispatcher = run.dispatcher
                /\ \A q \in receipts : q.index = i => q = r

\* A receipt never names an output that is not stored, even the receipt of a
\* call that died or lost the race for the revision.
ReceiptsBacked == \A r \in receipts : r.outputs \subseteq outputs

\* Where the handlers keep the promise of ReplayEventHandlerPort to be
\* deterministic, the outputs listed for a processed event are exactly those
\* of its receipt: no retry and no race leaves an output of its own behind.
OutputsMatchReceipts ==
    \A r \in receipts :
        Deterministic(r, r.index) => r.outputs = {o \in outputs : o.index = r.index}

\* An event is reported as processed by one step only, and a reported step is
\* in the stores: its receipts are the stored ones and the run is past it.
ReportedOnce ==
    \A s \in results :
        /\ s.to <= run.next_event_index
        /\ s.receipts \subseteq receipts
        /\ \A t \in results : s = t \/ s.to <= t.from \/ t.to <= s.from

\* A receipt ahead of the run whose handlers may answer differently next time.
Blocked ==
    \E r \in receipts : r.index >= run.next_event_index /\ ~Deterministic(r, r.index)

\* A started run completes, through lost races, deaths and pauses, unless such
\* a receipt was left behind.
StartedRunsComplete ==
    (run # NoRun /\ run.status = "RUNNING") ~>
        (run # NoRun /\ (run.status = "COMPLETED" \/ Blocked))
=============================================================================
