# Formal model of futures_bot

TLA+ modules for the core of `src/futures_bot`, model-checked with TLC; every
safety property that the runs check is also proved with TLAPS. The package is a
local, deterministic skeleton of a futures trading system: every boundary to a
database, a broker or a venue is a port with an in-memory implementation, and
the services between the ports are synchronous one-shot calls. What can go
wrong is therefore not a lock or a thread but the *order of writes to stores
that have no common transaction*, a call that stops between two of them, and
several callers that share the stores.
Paths below are relative to `src/futures_bot`.

## 1. Inventory

### Modelled

| Component | State | Operations | What is hard |
|---|---|---|---|
| Local JSONL WAL (`infrastructure/wal/local_jsonl.py`) | segment files, metadata files, in-memory offsets | `open`, `append`, `seal_current_segment`, `close`, reads | crash or raising I/O between any two disk effects; recovery |
| WAL relay (`relay/service.py`, `sidecars/local.py`) | relay checkpoint | `run_once` / `relay_once` | batch published, checkpoint lost; rejection |
| Broker (`infrastructure/broker/in_memory.py`) | one partition | `publish_batch` | duplicates get new offsets |
| DB writer (`db_writer/service.py`) | event store, checkpoint, required-consumer checkpoint, cursor | `commit_once` / `commit_consumed_batch` | four writes, no transaction; redelivery; several runs on one cursor |
| WAL GC decision (`domain/sidecars.py`) | none | `decide_wal_gc` | decided from checkpoints that lag |
| Execution manager (`execution_manager/coordinator.py`) | intent journals, lifecycle events, records, readiness proofs, reconciliation markers, decisions | `admit` for order, cancel and replace intents | up to nine writes per call, each may raise; retries meet partial state |
| Order lifecycle (`order_lifecycle`, `domain/order_lifecycle.py`) | none | permission policies, transition table | long sequences of legal calls |
| Replay planning (`replay/local.py`) | datasets, batches, timelines, cursors, coverage reports, diffs | `register_input_dataset`, `create_input_batch`, `build_timeline`, cursor operations, audits | several callers load a cursor and save it later; ties between batches |
| Replay integrity (`replay/integrity.py`) | fingerprints, verifications, batch reports, readiness reports, manifests | fingerprint, verify, batch verification, readiness check, `plan_replay_run` | stores grow between the reads of one call; a batch verification that stops; a timeline store that is lost |
| Market data and evidence in a replay (`market_data`, `evidence`) | market timelines, evidence timelines | the replay adapter, the evidence builder, the two lookups | events that tie in time, two venues of one instrument |
| Decision (`decision/replay_adapter.py`, `decision/journal.py`) | the outputs of a run | the handler of a decision stack, the journal | stack and lookups belong to others and change at any moment |
| Live state (`live_state`) | DB writer checkpoint, persisted rows, the slices a bot holds | historical reader, live tail, `stitch` | history and tail are read at different moments |
| Runtime control (`runtime_control`) | program and stack state, kill switches | transitions, `evaluate_order_flow_permission`, `can_enter_running_after_warmup` | long sequences of legal transitions |
| Venue capabilities (`venue_capabilities`) | source records, snapshots, rules, imports | manual import, resolution, freshness, order validator | four puts, no transaction; imports out of order |
| Research (`research`) | experiments, runs, result sets, plans, configs, bundles, lineage, artifacts | recorders, planner, registries | a stale copy saved over a reviewed one |
| Replay runtime (`replay/runtime.py`, `replay/dispatch.py`) | run state with a revision, receipts, outputs | `create_run`, `start_run`, `step_run`, `pause_run`, `resume_run` | callers racing on one revision; death between outputs, receipts and the replacement |

How they interact: the runtime appends events to the WAL; the relay reads the
WAL after its checkpoint and publishes to the broker; the DB writer consumes the
partition and commits; its checkpoints are what `decide_wal_gc` reads. The
execution manager takes an admission request that carries an order-flow
permission (from runtime control) and venue-capability and provenance contexts
(from venue capabilities), and writes only to its own stores; submission to a
venue is deferred in the repository. The replay runtime reads the manifests,
timelines and fingerprints that replay planning and integrity store, and hands
events to handlers through the dispatcher; the decision handler is the one the
package has, and it reads market and evidence timelines built beforehand. The
permission of an order rests on three parts that know nothing of each other:
the stitched view of the stream, the control plane and the venue's rules.

### Not modelled

| Component | Why |
|---|---|
| Event journal readiness | stores of values by id and one pure evaluation without a caller; the journaling itself is the WAL and the pipeline |
| Objective assets, asset conversion, collateral valuation, execution costs, margin and liquidation | policy stores and pure readiness evaluations, each a chain of early returns over one input; no two steps, and a model would restate the chain |
| Market data readiness policies, observation store | as above |
| Control commands and events, safety manifests, recovery checkpoints | stored and read back by id; nothing evaluates them |
| Venue registry and templates, source descriptors, health and freshness-decision stores | values by id |
| Domain value objects, ports | frozen values, protocols; modelled where a component checks them |
| Ledger, risk, runtime, execution, scanner, evaluation, counterfactual | placeholders |

The hazards of each component, at the line where they bite, are in
`PROJECT.json`.

## 2. Plan

1. *Done.* `LocalJsonlWal` with the abstract `EventJournal` it implements, and
   its proofs.
2. *Done.* `RelayPipeline` (relay, broker, DB writer, checkpoints, GC), and its
   proofs. It relies of the WAL only on what `EventJournal` promises.
3. *Done.* `ExecutionManager` with `OrderIntentPolicies` and the abstract
   `OrderLifecycle` it implements.
4. *Done.* `ReplayRuntime`.
5. *Done.* `ReplayPlanning` and `ReplayIntegrity`: from batches to a manifest.
6. *Done.* `ReplayMarketFrames` and `ReplayDecisions`: what a decision stack
   sees in a replay, and the run that records what it decides.
7. *Done.* `LiveState`, `RuntimeControl`, `VenueCapabilities`, and `TradingGate`
   which composes them.
8. *Done.* `ResearchRegistry`.
9. *Done.* Proofs of every safety property the runs check and of both
   refinements, in one module of theorems per component.
10. `ReplayIntegrity` composed with `ReplayRuntime` through `Held`, which is a
    constant today.

## 3. Modules and the code they stand for

`PROJECT.json` maps every definition to its lines.

**`EventJournal`** is what callers of the WAL rely on: a log that only grows, in
which a record's place is its offset, and acknowledgements only for records in
the log.

**`LocalJsonlWal`** cuts every public operation at its disk effects; `pc` names
the effect that comes next. `files` and `metas` are the disk, `cur`, `nextOff`,
`first`, `count` and `handle` the instance's fields. `Crash` may come at any
point, `CrashInAppend` tears the line being written, and `...Fails` actions are
raising I/O calls with what they leave behind. `DiskValid` is the conjunction of
the checks `open()` makes before it writes. Rollover by size or age is a
nondeterministic choice after any append; payload bytes, hashes and times are
left out. `Faults` and `SealEmpty` select the environment of a run. A crash
loses nothing that was written (process crash, not power loss), one instance is
open at a time, and `fsync_on_append` is on.

**`RelayPipeline`** has one variable per store and one action per outcome of
`run_once`, `commit_once` and `decide_wal_gc`. A commit batch is a slice of the
partition; `CommitWrites(c, first, n, done)` performs the first `done` of the
four writes, so that `CommitFails` is a call that raised after `done` of them.
The poll loop is external: it resumes from its position or the cursor, may go
back, and never skips. An event is identified with its run and offset.

**`OrderIntentPolicies`** has the permission policies; a permission is the set of
its true flags. **`OrderLifecycle`** is the contract of a record: it appears
accepted and then follows the transition table.

**`ExecutionManager`** writes `admit` as the code reads: gates in the order of
the early returns (`OrderGates`, `CancelGates`, `ReplaceGates`; `Verdict` is the
first that fails), then the sequence of store writes that verdict leads to
(`OrderWrites`, ...), performed by `Perform` up to a write that raises of itself
(`Raises`: an invalid transition, an id with another payload, a proof that is
not ready or comes second) or that a store fails to make. Ids are digests of
content; the one exception is an intent changed after validation, which keeps
its id (`ClientOf` need not be one-to-one). What the venue adapter reports
(`VenueReport`) is external. Answers of the capability validators are inputs.

**`ReplayRuntime`** has one run and several callers. A call loads and plans in
one step (it reads one immutable state), then makes its preflight, each output
save, each receipt save and the replacement as steps of their own; `Die` ends
it anywhere. Handlers are functions from an event kind to a set of possible
answers: one with a single answer keeps the promise of `ReplayEventHandlerPort`,
one with more does not.

**`ReplayPlanning`** has one variable per store. A store that keeps the first
value under an id makes a call that reads and then saves one step; a cursor can
be replaced, so its operations load in one step and save in a later one.
**`ReplayIntegrity`** extends it. A batch verification saves its verifications
one by one and may die; the readiness checker reads three stores in three
steps; `LoseTimeline` is a timeline store that starts empty again. A canonical
payload is the artifact, so a digest is equal exactly when the content is.

**`ReplayMarketFrames`** has the pure part of a replay's market view as
operators: which batches, bindings and events the adapter accepts, the
observation of an event, the frame after it (the latest observation of each
stream, by the code's comparison; observations and frames are found by the
`order_index` of their event, as in the code's lookup tables), the evidence derived from a frame, and the
answers of both lookups. Deterministic ids are digests and stand for their
content. **`ReplayDecisions`** puts the handler of a decision stack over them:
the stack's version and the timelines the lookups serve change at any time
(stack versions go one way: the handler compares descriptors, so it cannot see a
version that was replaced and came back), the handler checks them
where the code does, and a step of the replay runtime over one event stores
the outputs one by one and may die between them.

**`LiveState`** keeps the durable stream itself, which no code sees, beside what
the code does see: the rows and the checkpoint of the DB writer, the slice that
`read_range` returned and the tail that the projection showed, taken at their
own moments. An event the projection showed before it was durable may become
another one. **`RuntimeControl`** has the two transition tables, the kill-switch
store and the permission as an operator. The history variable `resync`, which no
action reads, says of program and stack where the last stop led: a resync is
`owed` after PAUSED, STOPPED, ERROR and RESYNC_REQUIRED (a stack starts STOPPED),
`done` after a resync, `sheltered` after a halted, guarded or manual state, and
`starting` for a program that has not stopped yet. Only `done` is what the
repository's text asks for. Which of several switches is named as the reason is
left out. **`VenueCapabilities`** cuts an import at its puts; the freshness check
has both maximum ages. Of the order validator it keeps the four groups of checks
and what they compare (assets, features and flags, price, quantity at a price):
a price or size filter is the set of what it admits, and of a refusal only that
it is one is kept. **`TradingGate`** composes the three. The orchestrator that
calls them is deferred in the repository, so how it derives data health and the
checks of a warm-up from the parts (`DataHealth`, `WarmupHolds`) is external,
taken from the arguments the code expects.

**`ResearchRegistry`**: a config bundle is composed from stored configs
(`ComposeConfigBundle`) or saved as its caller made it, whatever it names
(`RegisterConfigBundle`); a status or a result set is loaded in one step and saved
in another; what is checked against stores that only grow is one step with its
save, since nothing that was found there can go away. Texts, notes of runs and
creation times are left out.

The `MC*` modules give constants their values and, where three or four parts
share a run (`MCIngest`, `MCReplayIntegrity`, `MCTradingGate`), a next-state
relation that explores the parts one at a time or in the order that matters.
`MCIngest` has the log and the pipeline as two scopes; `MCTradingGate` adds to
the gate the replayed decisions of `MCReplayDecisions`, whose variables it does
not touch.

## 4. Runs

| Run | Question | Result |
|---|---|---|
| `wal_faults` | one log under every fault of the disk, also those `append` does not handle, events that `splitlines` breaks and empty seals | acknowledged records stay on disk; sealed segments never change |
| `wal_empty_seal` | "never reset on rollover" with empty seals | violated: append, seal, seal, reopen: offsets start at 0 |
| `wal_append_io` | recovery when an append's flush or fsync raises | violated: the next append reuses the offset and `open` refuses the segment |
| `ingest` | one log with crashes between disk effects, torn lines, failing seals and metadata saves; two logs on one partition with one failing call of any kind | the log: invariant, monotonic and unique offsets, read-back, recovery, and `ImplementsEventJournal`; the pipeline: order, durable checkpoints, safe resume, safe GC, monotonic progress, and every record is committed in the end unless a batch was published twice |
| `pipeline_gc` | "all required consumers ... have committed" | violated: a required consumer without a checkpoint is not counted |
| `pipeline_republish` | "recommitting ... is idempotent" | violated: a republished record has a new kafka offset, a conflict |
| `execution` | three calls of `admit`, one failing write, venue reports | every record is backed, passed its gates; no double exposure; acceptances hold; the lifecycle contract is implemented |
| `planning` | timelines, cursors and audits; the chain to a manifest with a loss and a death; research records | timelines are a function of their batches; cursors go forward; a planned run was verified; a readiness report can always be made; reviewed conclusions never change, references resolve, a bundle its caller did not make holds stored configs |
| `decision_stack` | a decision stack over lookups that are reloaded, a stack that is upgraded, steps that die; the stream, the venue's rules, and the control plane over both | a decision sees exactly the past of its event; a run is decided on one view; the journal has every decision once; a tradable slice is the stream; the permission is sound for every exposure and policy; stored imports are whole, and an order is checked against stored rules |
| `gate_documented` | "startup, resume, restart ... must pass through resync"; kill switches "scoped by ... submission" | violated: BOOTING, WARMING_UP, RUNNING and STOPPED, EMERGENCY_HALTED, WARMING_UP, RUNNING, under an enabled submission switch that applies to the order: entries are permitted |
| `import_documented` | "all-or-nothing gateway" | violated: one request with two rules under one id leaves its record, its venue snapshot and its first rule in the stores, accepted by strict provenance, and no import |
| `replay` | two callers, two events, one pause, one death | exact receipts, backed receipts, no stray outputs, one report per event; started runs complete |

Bounds and why they are enough:

- WAL: four writes and four segments with two events per segment (`ingest`; three of
  each are enough for the faults of `wal_faults`) give a full
  rollover, an early rollover, a recovered open segment and a second recovery;
  every crash window is between two consecutive effects and needs one segment
  before it and one after it. The proofs drop these bounds.
- Pipeline (`pipeline_*`, `ingest`): two records and batches of at most two give partial, whole and
  overlapping batches; two runs give interleaving on one cursor; one fault is
  the interesting case, since each call is retried from what it left. The proofs
  hold for any number of faults, records, runs and consumers.
- Execution: three calls cover admit, replace, and a retry or a cancel of
  either; four intents hold two entries of one scope (replacement), one changed
  after validation under the same id, and one exit. The requests include
  combinations with one failed check and the two that pass the gates and fail in
  the proof constructor.
- Replay: two callers with steps of one or two events overlap in every way, one
  event has a deterministic handler and one has not; four bindings include an
  empty timeline and two that `create_run` refuses.

- Planning: two batches whose records tie, one that is not VALIDATED, one out of
  order and one of another plan; at most four timelines, reports and diffs, and
  five verifications, batch reports, readiness reports and manifests, of which a
  loss counts for two (after it one fingerprint is followed, without an overlap
  of verifying and checking). `Explored` separates what has only timelines in
  common: cursors, audits, and the chain of integrity over one timeline.
  Research runs on its own: one experiment, run and result set, two
  interchangeable researchers, two clock times; runs change while nothing else
  is there, the experiment before the registry fills up, results over one
  evaluation plan and one artifact. Its actions read disjoint stores except for
  the references that these orders keep.
- Decisions (`decision_stack`): two market timelines (the recorded one, and any other that can be
  built), which are built first, since a build adds a timeline and changes
  nothing else; two reloads, enough to change a lookup and change it back; two
  stack versions, one that answers twice and one whose answer does not conform.
  The recorded timeline has two trades and a book of one time from two venues.
- Gate (`decision_stack`): three scopes. *Stream*: two durable events, so that a tail overlaps,
  meets, misses or contradicts the history. *Venue*: two interchangeable
  callers, five import requests (a first one, an older one under higher ids, a
  later one with two rules under one id, one whose parts do not match, one that
  is not official), two snapshots put without an import, four resolutions.
  *Control*: all transitions of program and stack with one kill switch of six
  scopes, over one import and one event that come first. `gate_documented` explores
  *control* and `import_documented` *venue* by itself, the latter
  without deaths, so that nothing but the code ends an import.

Deadlock checking is off where the program is passive: a WAL that refused to
open, a coordinator nobody calls, a replay run that completed, a full store.

Fairness. The services are one-shot calls, so all fairness is about whoever
calls them. Pipeline (`Fairness` in `MCIngest`): somebody keeps calling `run_once` and
`commit_once` (`RelayPass`, `Poll`: weak fairness of a relay pass that succeeds, and of a poll from
the loop's own position that succeeds; faults are bounded, so success is
eventually possible again). `ReplayRuntime`: a call that was started goes on
(weak fairness of each caller's steps; it may also die), and somebody with the
run's own handlers and a clock that has caught up keeps stepping a running run
and resumes a paused one. Without such callers nothing happens, and nothing is
promised. `AppendedIsCommitted` excludes behaviours in which a batch was
published twice, and `StartedRunsComplete` those in which a nondeterministic
handler left a receipt behind: in both cases the code does get stuck, the first
is the subject of `pipeline_republish`.

## 5. Proofs

All theorems hold for every value of the constants that satisfies the modules'
named assumptions.

**`LocalJsonlWalProofs`** (from `WalAssumption`). `TypeCorrect`, `Durability`
and `SealedSegmentsImmutable` need no more: they hold under every fault, for
every caller and payload. Their invariant is `FaultInv` (`FaultInductive`): the
types, `RecordsOnDisk`, and `SegmentShape`, which says that at most the last
segment is open for writing, that an open file handle is on that segment and
that metadata lags at most one file behind. It is needed because nothing in
`append()` looks at the metadata on disk: that the write does not land in a
sealed segment follows only from where the handle was opened.

The others assume `Healthy`: callers seal no empty segment, events hold no line
break of `splitlines`, and neither `append_io` nor `torn_newline` happens. These
are the cases the code does not handle: `wal_empty_seal` and `wal_append_io`
are counterexamples for two of them.
No property is inductive: that the next offset is above the disk's depends on
what recovery computes from the disk, and that depends on offsets being
contiguous across segments. `WalInv` adds this: `OffsetsInOrder` (offsets count
up within and across files, only the last file may be empty), `LinesWhole` (only
the last line of the last file can be torn, and not while a process is up),
`MetasAgree` (metadata lags one file at most, sealed metadata describes its file
exactly), `MemoryAgrees` (a live instance's fields match the disk at every `pc`)
and `RecordsOnDisk`. The proof has one lemma per action; `Recovery` and
`ReadBack` show that `WalInv` implies every check of `open()` and of the reads,
and `OffsetsUnique` that two records on disk with one offset are the same line.

**`RelayPipelineProofs`** (from `PipelineAssumption` alone, with no bound on
faults, runs, consumers or records other than the constants). `PipelineInv`
strengthens the checked invariants with `StoresInOrder` (a store never gets
ahead of the ones written before it), which makes the required checkpoint stand
for committed records, and `PositionsInBroker` (cursor and poll position point
into the partition). The central argument is that without a gap check on the
first batch, `CheckpointCoversPrefix` rests on two other invariants: the broker
holds every predecessor of a record earlier in the partition
(`BrokerInWalOrder`), and everything up to the poll position is already
checkpointed (`ResumeLosesNothing`); so a batch that reaches a consumer without
a checkpoint starts at offset 0.

**`JournalRefinement`** (in `LocalJsonlWalProofs`, under `Healthy`): the WAL
implements `EventJournal`. The log is the disk read in offset order. Every disk
effect leaves it as it is or appends one record, because the written offset is
the disk's end and offsets have no gap below it (`WalInv`); an acknowledgement
adds only what is `pending`, at most one record that is already on disk
(`OnePending`). A torn line is no record and not part of the log.

**`ReplayRuntimeProofs`** (from `ReplayAssumption`: numbers are numbers and every
binding is well formed). `ReplayInv` says of every call under way that it was
planned on this run at its revision or an earlier one, and that what a step has
left to save and what is saved already make up its plan (`CallsHold`); and of every stored
receipt and output that the run's own handlers may have answered it, one receipt
per event (`StoredIsGenuine`). It is needed because a call plans once and writes
many times: nothing at a write looks at the run again until the replacement
compares the revision, and by then the receipts and outputs of a call that comes
too late are stored, so they must be the run's own.

**`ExecutionManagerProofs`** (from `ExecutionAssumption`: the tables of intents
are total). A call is a sequence of writes of which a prefix is made, whichever
write raises. `WriteOK` says of each write what the writes before it must have
stored; one lemma about prefixes serves all calls, and each of the three kinds
of request has to justify only its own sequence. `ExecInv` is the conjunction of
the checked invariants with `NeverCreated` (a record is born accepted, so a
report cannot find one in CREATED). `LifecycleRefinement` follows the same
lemmas: whatever prefix of its writes a call makes, each record stays, appears
accepted or moves along the transition table.

**`ReplayIntegrityProofs`** covers `ReplayPlanning` and `ReplayIntegrity` (from
`NumbersAssumption`, `IdsAssumption`, `BatchesAssumption`: ids, times and
sequence numbers are numbers here and a batch's records are a tuple). Three
invariants:

- `IntegrityInv`: what one artifact names in another is stored and equal. A VALID
  item of a batch report has a stored verification whose payload is that of its
  fingerprint (`BatchesHold`), a ready report names such a batch report
  (`ReadinessHolds`), a manifest such a readiness report; and the half-made
  values of the calls that read step by step (`VerifyingHolds`, `CheckingHolds`)
  were true when they were read and stay so, since these stores never drop or
  change a value.
- `CursorInv`: every stored cursor, and every one a caller is about to save, fits
  its timeline. `CursorForward` is proved under `NoLoss`: after a timeline store
  is lost, a timeline built anew under the old id may have another number of
  events, and the cursor of the old one does not fit it.
- `TimelineInv`: a timeline's events are exactly the records of its batches, in a
  valid order. That two timelines over the same batches are equal then needs
  that a set has one ascending list: the sort key is a strict total order on
  events (`OneListing`), and two of them cannot differ first anywhere.

The existence of what the code computes by a loop (the concatenation of the
batches, the sorted list, the greatest report) is shown by least
counterexample, from `WFMin`.

**`ReplayDecisionsProofs`** (from `TimelinesAssumption`: a timeline's events are
a tuple). Everything a run stores is a function of its `View`: timeline,
dispatcher and market timeline, none of which a step changes once the run
exists. `DecisionsInv` says that what a step has gathered so far, and every
stored output, is what this view has of the event (`CallKnown`,
`OutputsKnown`). The stack needs an extra argument: it may be another version
when it decides, but versions go one way and the check after `decide` finds the
frozen one, so the two were the same. `SeesThePast` then rests on
`FrameHoldsLast`. The code selects the latest observation of a stream by
comparing sequence numbers or arrival times, not by order of events; that the
two agree follows from a check made when the timeline is built: each
observation is in the frame it triggers. Had the loop kept an older one, some
later observation would be missing from its own frame, so the loop over all of
them agrees step by step with the loops before it (`ScansAgree`).

**`TradingGateProofs`** (from `NoSliceAssumption`,
`ScopesAssumption`, `SnapshotsAssumption`, `UnknownsAssumption`: numbers are
numbers, the missing slice is no slice and no reason, scopes and unknown states
are of the code's kinds). The three parts share no variable, so
the invariant is a conjunction. `LiveInv`: the history a bot holds is durable and
ends where it says, its tail has nothing below the durable end it was read at
that is not, and the durable part only grows. `ControlInv`: whose resync is
`owed` is in PAUSED, STOPPED, ERROR or (a stack) RESYNC_REQUIRED, the states that
the transition tables leave only for a resync or for a halted, guarded or manual
state; so nobody goes from a stop straight to RUNNING. That, and that no
switch `list_matching` can find is overlooked, is all the code enforces, and all
`PermissionSoundness` claims; what the repository's text claims beyond it is
refuted by `gate_documented`. `VenueInv`: each part of
an import still to be stored is stored or comes in an earlier put, and no stored
ids collide. The argument about a stitched slice is that a tail which meets or
overlaps the history without contradicting it continues the same stream, for
every length of both.

**`ResearchRegistryProofs`** (from `ResultFieldsAssumption`). A copy is not what
is stored, but what it adds was declared when it was loaded and declarations
only grow: `ResearchInv` says so of the stored values and of every copy under
way. Of bundles it says that each holds stored configs or is one that a caller
registered as it was.

Only model-checked: liveness (`AppendedIsCommitted`, `StartedRunsComplete`),
which is out of the prover's reach under fairness. Every other property of a
passing run is a theorem: those of the log in `ingest` under
`Healthy`, `CursorForward` while no timeline store is lost, the rest without
further hypothesis.

## 6. Left out

String formats of ids, hashes, log and error texts, and JSON encoding (except
the line breaks that decide whether a segment can be read) are data no property
tells apart. Timestamps appear where a check compares them (`ReplayRuntime`) and
are left out where they only label a record. Power loss, two WAL instances on
one directory, and `fsync_on_append=False` are outside the WAL model.
`commit_published_batch`, `RequiredConsumerCheckpointStore.replace` and
`RuntimeBackpressureDecision` have no caller in the package. The decimal
arithmetic of the order filters and the ladders of refusal reasons of freshness,
provenance and order validation are reduced to whether they refuse.

The resync rule, the scoped submission switches and the gateway that is not
all-or-nothing are the subject of `gate_documented` and `import_documented`.
What else was met on the way and no run is about:

- `register_config_bundle` saves a bundle whose entries no stored config matches;
  no text of the repository says it does not.
- A slice stitched without a live tail is tradable however old the history is,
  and so is one of an empty history and an empty tail.
- With `require_gap_free=False` a tail that is not gap-free makes the stitched
  slice's own validator raise.
- A snapshot dated ahead is the latest one and hides valid ones until its time
  has come (`venue_capabilities/resolution.py:57`).
- `advance_cursor` skips its bound when the timeline is not stored
  (`replay/local.py:292`); `CursorForward` is stated while it is.
- A replay plan is checked against a run manifest that may later be replaced by
  one with another dataset; a COMPLETED run may still become FAILED.
- `decisions_for_run` raises as a whole when one output cannot be decoded.
- A batch the broker rejected is reported HEALTHY with the batch's last offset;
  a rejected cancel or replace adds a CREATED to REJECTED event to the history
  of a live order; a retry of `admit` with another `requested_at` after its
  proof was stored can never succeed, and one of a cancel whose decision was
  lost answers TARGET_ORDER_NOT_ACTIVE; a clock behind `updated_at` makes every
  transition of a replay run raise.
