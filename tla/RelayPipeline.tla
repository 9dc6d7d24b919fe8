---------------------------- MODULE RelayPipeline ----------------------------
(***************************************************************************)
(* The one-shot sidecar pipeline: the WAL relay publishes the journal of   *)
(* each run to one broker partition, DB writers commit what they consume   *)
(* and record their progress in four stores, and WAL garbage collection is *)
(* decided from one of them.  The services hold no state of their own:     *)
(* everything below lives in the stores behind their ports.  An event is   *)
(* identified with its place in the WAL: run and offset.                   *)
(***************************************************************************)
EXTENDS Integers, Sequences

CONSTANTS
    Runs,        \* run ids; each run has a WAL and a relay of its own
    Consumers,   \* DB writer consumer ids
    Required,    \* those created with is_required_for_wal_gc=True
    MaxRecords,  \* bound: records appended to the WAL of one run
    MaxBatch,    \* bound: records in one relay or DB writer batch
    MaxFaults,   \* bound: failing store and broker calls in a behaviour
    SidecarFaults  \* the kinds of call that may fail

SidecarFaultKinds ==
    {"reject",       \* the broker answers published=False
     "relay_save",   \* the relay dies between publish and checkpoint save
     "commit",       \* commit_records raises
     "checkpoint",   \* the DB writer checkpoint save raises
     "upsert",       \* the required-consumer checkpoint upsert raises
     "cursor",       \* the broker cursor save raises
     "health"}       \* the health store refuses the snapshot (clock went back)

ASSUME PipelineAssumption ==
    /\ MaxRecords \in Nat /\ MaxBatch \in Nat /\ MaxFaults \in Nat
    /\ Required \subseteq Consumers
    /\ SidecarFaults \subseteq SidecarFaultKinds

VARIABLES
    appended,    \* per run: how many records its WAL holds
    broker,      \* the partition: broker[k] has kafka offset k - 1
    relayCkpt,   \* WalRelayCheckpointStore: last_published_wal_offset
    kafkaOf,     \* CommittedEventStore of each consumer: kafka offset of each record
    dbCkpt,      \* DbWriterCheckpointStore: last_committed_wal_offset
    reqCkpt,     \* RequiredConsumerCheckpointStore: last_committed_wal_offset
    cursor,      \* BrokerConsumerCursorStore: kafka_offset
    polled,      \* poll loop of each consumer: last kafka offset handled without error
    health,      \* SidecarHealthStore: latest snapshot of each sidecar
    gc,          \* per run: the last eligible decision of decide_wal_gc
    faults       \* failing calls so far

stores == <<kafkaOf, dbCkpt, reqCkpt, cursor>>
pipelineVars == <<appended, broker, relayCkpt, stores, polled, health, gc, faults>>

\* An absent checkpoint, cursor, committed record or decision.
None == -1

Offsets == 0 .. MaxRecords - 1
Record == [run : Runs, off : Offsets]
Sidecars == Runs \cup Consumers

\* SidecarHealthSnapshot: FAILED goes with UNHEALTHY and RUNNING with HEALTHY.
Snapshot == [status : {"NONE", "RUNNING", "FAILED"}, off : Offsets \cup {None}]

\* The snapshot a sidecar saves after a pass that raised.
FailedSnapshot == [status |-> "FAILED", off |-> None]

\* The snapshot a sidecar saves after a pass that returned.
RunningSnapshot(off) == [status |-> "RUNNING", off |-> off]

PipelineInit ==
    /\ appended = [r \in Runs |-> 0]
    /\ broker = << >>
    /\ relayCkpt = [r \in Runs |-> None]
    /\ kafkaOf = [c \in Consumers |-> [r \in Runs |-> [o \in Offsets |-> None]]]
    /\ dbCkpt = [c \in Consumers |-> [r \in Runs |-> None]]
    /\ reqCkpt = [c \in Consumers |-> [r \in Runs |-> None]]
    /\ cursor = [c \in Consumers |-> None]
    /\ polled = [c \in Consumers |-> None]
    /\ health = [s \in Sidecars |-> [status |-> "NONE", off |-> None]]
    /\ gc = [r \in Runs |-> [last |-> None, by |-> {}]]
    /\ faults = 0

\* One more failing call of the given kind.
Fault(kind) ==
    /\ kind \in SidecarFaults
    /\ faults < MaxFaults
    /\ faults' = faults + 1

-----------------------------------------------------------------------------
(* The runtime appends to the WAL of a run (module LocalJsonlWal).          *)

AppendEvent(r) ==
    /\ appended[r] < MaxRecords
    /\ appended' = [appended EXCEPT ![r] = @ + 1]
    /\ UNCHANGED <<broker, relayCkpt, stores, polled, health, gc, faults>>

-----------------------------------------------------------------------------
(* LocalWalRelaySidecar.run_once over LocalWalRelayService.relay_once.      *)

\* Mutant: the batch is not cut at the end of the journal.
BatchSizeUncut(r, max) == IF appended[r] = relayCkpt[r] + 1 THEN 0 ELSE max

\* build_batch_after_checkpoint: how many of the pending records a batch of
\* at most max_records takes.
BatchSize(r, max) ==
    LET pending == appended[r] - (relayCkpt[r] + 1)
    IN  IF max < pending THEN max ELSE pending

\* The last offset of the batch.
BatchLast(r, max) == relayCkpt[r] + BatchSize(r, max)

\* Mutant: the batch starts one record late.
PublishedLate(r, max) ==
    broker \o [i \in 1 .. BatchSize(r, max) - 1 |-> [run |-> r, off |-> relayCkpt[r] + i + 1]]

\* InMemoryBrokerPublisher.publish_batch: the records after the checkpoint
\* get the next kafka offsets of the partition.
Published(r, max) ==
    broker \o [i \in 1 .. BatchSize(r, max) |-> [run |-> r, off |-> relayCkpt[r] + i]]

\* Nothing to publish.
RelayIdle(r) ==
    /\ appended[r] = relayCkpt[r] + 1
    /\ health' = [health EXCEPT ![r] = RunningSnapshot(None)]
    /\ UNCHANGED <<appended, broker, relayCkpt, stores, polled, gc, faults>>

\* The broker acknowledges the batch and the checkpoint is saved.
RelayOnce(r, max) ==
    /\ BatchSize(r, max) > 0
    /\ broker' = Published(r, max)
    /\ relayCkpt' = [relayCkpt EXCEPT ![r] = BatchLast(r, max)]
    /\ health' = [health EXCEPT ![r] = RunningSnapshot(BatchLast(r, max))]
    /\ UNCHANGED <<appended, stores, polled, gc, faults>>

\* The broker rejects the batch: nothing is saved, and run_once still reports
\* a healthy pass with the batch's last offset.
RelayRejected(r, max) ==
    /\ BatchSize(r, max) > 0
    /\ Fault("reject")
    /\ health' = [health EXCEPT ![r] = RunningSnapshot(BatchLast(r, max))]
    /\ UNCHANGED <<appended, broker, relayCkpt, stores, polled, gc>>

\* The batch is in the broker, but its acknowledgement or its checkpoint is
\* lost: publish_batch raises after the publish.
RelaySaveFails(r, max) ==
    /\ BatchSize(r, max) > 0
    /\ Fault("relay_save")
    /\ broker' = Published(r, max)
    /\ health' = [health EXCEPT ![r] = FailedSnapshot]
    /\ UNCHANGED <<appended, relayCkpt, stores, polled, gc>>

\* The pass is done and saved, but the health store refuses the snapshot.
RelayHealthFails(r, max) ==
    /\ BatchSize(r, max) > 0
    /\ Fault("health")
    /\ broker' = Published(r, max)
    /\ relayCkpt' = [relayCkpt EXCEPT ![r] = BatchLast(r, max)]
    /\ UNCHANGED <<appended, stores, polled, health, gc>>

-----------------------------------------------------------------------------
(* LocalDbWriterSidecar.commit_once over                                    *)
(* LocalDbWriterService.commit_consumed_batch.  A batch is the slice of the *)
(* partition with kafka offsets first .. first + n - 1.                     *)

\* The later of two kafka offsets.
Later(a, b) == IF a < b THEN b ELSE a

\* What the poll loop may hand to the consumer: it resumes from its own
\* position or from the saved cursor, may go back, and never skips a record.
Delivers(c, first, n) ==
    /\ first <= Later(polled[c], cursor[c]) + 1
    /\ first + n <= Len(broker)

\* The record with a given kafka offset.
At(k) == broker[k + 1]

\* _validate_batch: one run, and contiguous WAL offsets.
ValidBatch(first, n) ==
    \A k \in first .. first + n - 1 :
        /\ At(k).run = At(first).run
        /\ At(k).off = At(first).off + (k - first)

\* _validate_checkpoint_duplicates: what is at or below the checkpoint must
\* be committed, with the kafka offset it has now.
DuplicatesMatch(c, first, n) ==
    LET r == At(first).run
    IN  \A k \in first .. first + n - 1 :
            At(k).off <= dbCkpt[c][r] => kafkaOf[c][r][At(k).off] = k

\* records_to_commit: the offsets of the batch above the checkpoint.
NewOffsets(c, first, n) ==
    LET r == At(first).run
    IN  {o \in At(first).off .. At(first).off + n - 1 : o > dbCkpt[c][r]}

\* Mutant: the expected offset is the checkpoint's own.
NoGapOwnOffset(c, first, n) ==
    LET r == At(first).run
    IN  dbCkpt[c][r] # None => dbCkpt[c][r] \in NewOffsets(c, first, n)

\* The gap check: after a checkpoint, the first new offset is the next one.
\* Without a checkpoint there is no check.
NoGap(c, first, n) ==
    LET r == At(first).run
    IN  dbCkpt[c][r] # None => dbCkpt[c][r] + 1 \in NewOffsets(c, first, n)

\* commit_records: a record that is stored already keeps its kafka offset.
NoConflict(c, first, n) ==
    LET r == At(first).run
    IN  \A k \in first .. first + n - 1 :
            At(k).off \in NewOffsets(c, first, n)
                => kafkaOf[c][r][At(k).off] \in {None, k}

\* Everything that is checked before commit_records stores the records.
Accepts(c, first, n) ==
    /\ ValidBatch(first, n)
    /\ DuplicatesMatch(c, first, n)
    /\ NewOffsets(c, first, n) # {} => NoGap(c, first, n) /\ NoConflict(c, first, n)

\* The batch raises before anything is written.
CommitRefused(c, first, n) ==
    /\ Delivers(c, first, n)
    /\ ~Accepts(c, first, n)
    /\ health' = [health EXCEPT ![c] = FailedSnapshot]
    /\ UNCHANGED <<appended, broker, relayCkpt, stores, polled, gc, faults>>

\* Everything in the batch is committed: the checkpoint found is returned.
CommitDuplicates(c, first, n) ==
    /\ Delivers(c, first, n)
    /\ Accepts(c, first, n)
    /\ NewOffsets(c, first, n) = {}
    /\ polled' = [polled EXCEPT ![c] = Later(@, first + n - 1)]
    /\ health' = [health EXCEPT ![c] = RunningSnapshot(dbCkpt[c][At(first).run])]
    /\ UNCHANGED <<appended, broker, relayCkpt, stores, gc, faults>>

\* Mutant: the kafka offset of the first new record is stored for all.
CommittedSameOffset(c, first, n) ==
    LET r == At(first).run
    IN  [kafkaOf EXCEPT ![c][r] =
            [o \in Offsets |-> IF o \in NewOffsets(c, first, n) THEN first ELSE @[o]]]

\* Mutant: the store is replaced by the batch.
CommittedReplaces(c, first, n) ==
    LET r == At(first).run
    IN  [kafkaOf EXCEPT ![c][r] =
            [o \in Offsets |-> IF o \in NewOffsets(c, first, n)
                               THEN first + (o - At(first).off)
                               ELSE None]]

\* commit_records: the new records of the batch with their kafka offsets.
Committed(c, first, n) ==
    LET r == At(first).run
    IN  [kafkaOf EXCEPT ![c][r] =
            [o \in Offsets |-> IF o \in NewOffsets(c, first, n)
                               THEN first + (o - At(first).off)
                               ELSE @[o]]]

\* The WAL offset of the last record of the batch.
LastOffset(first, n) == At(first).off + n - 1

\* Mutant: the DB writer checkpoint is saved before the records.
CommitWritesCheckpointFirst(c, first, n, done) ==
    LET r == At(first).run
        last == LastOffset(first, n)
    IN  /\ dbCkpt' = [dbCkpt EXCEPT ![c][r] = last]
        /\ kafkaOf' = IF done >= 1 THEN Committed(c, first, n) ELSE kafkaOf
        /\ reqCkpt' = IF done >= 3 THEN [reqCkpt EXCEPT ![c][r] = last] ELSE reqCkpt
        /\ cursor' = IF done >= 4 THEN [cursor EXCEPT ![c] = first + n - 1] ELSE cursor

\* Mutant: the cursor is saved before the checkpoints.
CommitWritesCursorFirst(c, first, n, done) ==
    LET r == At(first).run
        last == LastOffset(first, n)
    IN  /\ cursor' = [cursor EXCEPT ![c] = first + n - 1]
        /\ kafkaOf' = IF done >= 1 THEN Committed(c, first, n) ELSE kafkaOf
        /\ dbCkpt' = IF done >= 2 THEN [dbCkpt EXCEPT ![c][r] = last] ELSE dbCkpt
        /\ reqCkpt' = IF done >= 3 THEN [reqCkpt EXCEPT ![c][r] = last] ELSE reqCkpt

\* The writes of a batch with new records, in the code's order: the event
\* store, the DB writer checkpoint, the required-consumer checkpoint and the
\* broker cursor.  Only the first `done` of them happen.
CommitWrites(c, first, n, done) ==
    LET r == At(first).run
        last == LastOffset(first, n)
    IN  /\ kafkaOf' = IF done >= 1 THEN Committed(c, first, n) ELSE kafkaOf
        /\ dbCkpt' = IF done >= 2 THEN [dbCkpt EXCEPT ![c][r] = last] ELSE dbCkpt
        /\ reqCkpt' = IF done >= 3 THEN [reqCkpt EXCEPT ![c][r] = last] ELSE reqCkpt
        /\ cursor' = IF done >= 4 THEN [cursor EXCEPT ![c] = first + n - 1] ELSE cursor

\* The stores keep their offsets monotonic: after `done` writes, the next
\* store would refuse a value below the one it holds.
Regresses(c, first, n, done) ==
    LET r == At(first).run
    IN  \/ done = 1 /\ LastOffset(first, n) < dbCkpt[c][r]
        \/ done = 2 /\ LastOffset(first, n) < reqCkpt[c][r]
        \/ done = 3 /\ first + n - 1 < cursor[c]

\* The batch has new records to commit.
Commits(c, first, n) ==
    /\ Delivers(c, first, n)
    /\ Accepts(c, first, n)
    /\ NewOffsets(c, first, n) # {}

\* The batch is committed and every store written.
CommitOnce(c, first, n) ==
    /\ Commits(c, first, n)
    /\ \A done \in 1 .. 3 : ~Regresses(c, first, n, done)
    /\ CommitWrites(c, first, n, 4)
    /\ polled' = [polled EXCEPT ![c] = Later(@, first + n - 1)]
    /\ health' = [health EXCEPT ![c] = RunningSnapshot(LastOffset(first, n))]
    /\ UNCHANGED <<appended, broker, relayCkpt, gc, faults>>

\* The call that raises after `done` writes.
FailingCall(done) ==
    CASE done = 0 -> "commit"
      [] done = 1 -> "checkpoint"
      [] done = 2 -> "upsert"
      [] done = 3 -> "cursor"
      [] done = 4 -> "health"

\* One of the calls raises: the stores written before it keep their values,
\* and the sidecar reports FAILED unless it is the health store that raised.
CommitFails(c, first, n, done) ==
    /\ Commits(c, first, n)
    /\ \A d \in 1 .. done - 1 : ~Regresses(c, first, n, d)
    /\ IF Regresses(c, first, n, done) THEN faults' = faults ELSE Fault(FailingCall(done))
    /\ CommitWrites(c, first, n, done)
    /\ health' = IF done = 4 THEN health ELSE [health EXCEPT ![c] = FailedSnapshot]
    /\ UNCHANGED <<appended, broker, relayCkpt, polled, gc>>

-----------------------------------------------------------------------------
(* decide_wal_gc over load_required_checkpoints(r).                         *)

\* required_checkpoints: only a consumer that has committed has a checkpoint.
RequiredCheckpoints(r) == {c \in Required : reqCkpt[c][r] # None}

\* Mutant: the relay's progress is taken for a consumer's.
AllRequiredReachedByRelay(r, last) ==
    RequiredCheckpoints(r) # {} /\ relayCkpt[r] >= last

\* all_required_consumers_reached.
AllRequiredReached(r, last) ==
    /\ RequiredCheckpoints(r) # {}
    /\ \A c \in RequiredCheckpoints(r) : reqCkpt[c][r] >= last

\* A sealed segment of run r that ends at offset last is found eligible.
\* Segments end wherever a rollover put them.
DecideWalGc(r, last) ==
    /\ last < appended[r]
    /\ AllRequiredReached(r, last)
    /\ gc' = [gc EXCEPT ![r] = [last |-> last, by |-> RequiredCheckpoints(r)]]
    /\ UNCHANGED <<appended, broker, relayCkpt, stores, polled, health, faults>>

-----------------------------------------------------------------------------

Relay(r) ==
    \/ RelayIdle(r)
    \/ \E max \in 1 .. MaxBatch :
        \/ RelayOnce(r, max)
        \/ RelayRejected(r, max)
        \/ RelaySaveFails(r, max)
        \/ RelayHealthFails(r, max)

DbWriter(c) ==
    \E first \in 0 .. Len(broker) - 1, n \in 1 .. MaxBatch :
        \/ CommitRefused(c, first, n)
        \/ CommitDuplicates(c, first, n)
        \/ CommitOnce(c, first, n)
        \/ \E done \in 0 .. 4 : CommitFails(c, first, n, done)

PipelineNext ==
    \/ \E r \in Runs : AppendEvent(r) \/ Relay(r)
    \/ \E c \in Consumers : DbWriter(c)
    \/ \E r \in Runs, last \in Offsets : DecideWalGc(r, last)

PipelineSpec == PipelineInit /\ [][PipelineNext]_pipelineVars

\* What somebody keeps calling, where progress is expected: run_once, and a poll
\* from the loop's position, with no failing call.
RelayPass(r) == \E max \in 1 .. MaxBatch : RelayOnce(r, max)

Poll(c) ==
    \E n \in 1 .. MaxBatch :
        LET first == polled[c] + 1
        IN  CommitDuplicates(c, first, n) \/ CommitOnce(c, first, n)

-----------------------------------------------------------------------------
(* Properties.                                                              *)

\* Every store holds values of its type.
PipelineTypeOK ==
    /\ appended \in [Runs -> 0 .. MaxRecords]
    /\ broker \in Seq(Record)
    /\ relayCkpt \in [Runs -> Offsets \cup {None}]
    /\ kafkaOf \in [Consumers -> [Runs -> [Offsets -> Nat \cup {None}]]]
    /\ dbCkpt \in [Consumers -> [Runs -> Offsets \cup {None}]]
    /\ reqCkpt \in [Consumers -> [Runs -> Offsets \cup {None}]]
    /\ cursor \in [Consumers -> Nat \cup {None}]
    /\ polled \in [Consumers -> Nat \cup {None}]
    /\ health \in [Sidecars -> Snapshot]
    /\ gc \in [Runs -> [last : Offsets \cup {None}, by : SUBSET Required]]
    /\ faults \in 0 .. MaxFaults

\* The broker holds no record before the record that precedes it in its WAL,
\* whatever was rejected, lost or published twice, and the relay checkpoint
\* never runs ahead of the broker: a consumer that starts at the beginning of
\* the partition meets every run from offset 0 without a hole.
BrokerInWalOrder ==
    /\ \A k \in 1 .. Len(broker) :
        /\ broker[k].off < appended[broker[k].run]
        /\ broker[k].off > 0 =>
            \E j \in 1 .. k - 1 :
                broker[j] = [run |-> broker[k].run, off |-> broker[k].off - 1]
    /\ \A r \in Runs : relayCkpt[r] # None =>
        \E k \in 1 .. Len(broker) : broker[k] = [run |-> r, off |-> relayCkpt[r]]

\* A DB writer checkpoint at offset o means that every record 0 .. o of the
\* run is in that consumer's event store, although the first batch of a run
\* is accepted with no gap check, the four stores are written one by one and
\* the poll loop may deliver again from any earlier place.
CheckpointCoversPrefix ==
    \A c \in Consumers, r \in Runs, o \in Offsets :
        o <= dbCkpt[c][r] => kafkaOf[c][r][o] # None

\* A stored record is stored with a kafka offset at which the broker really
\* holds it: no batch is committed under another batch's offsets.
StoredWhereBrokerHasIt ==
    \A c \in Consumers, r \in Runs, o \in Offsets :
        kafkaOf[c][r][o] # None =>
            /\ kafkaOf[c][r][o] < Len(broker)
            /\ At(kafkaOf[c][r][o]) = [run |-> r, off |-> o]

\* The saved cursor and the poll loop's position never pass a record that is
\* not committed and checkpointed: resuming from either loses nothing, across
\* the runs that share the partition.
ResumeLosesNothing ==
    \A c \in Consumers : \A k \in 0 .. Len(broker) - 1 :
        k <= Later(polled[c], cursor[c]) => At(k).off <= dbCkpt[c][At(k).run]

\* The stores a batch writes never get ahead of the ones written before them.
StoresInOrder ==
    \A c \in Consumers, r \in Runs : reqCkpt[c][r] <= dbCkpt[c][r]

\* The required checkpoints that authorised a garbage collection stand for
\* committed records: each consumer counted by the decision has stored the
\* whole run up to the segment's end, whatever failed between its writes.
GcOnlyAfterCommit ==
    \A r \in Runs : gc[r].last # None =>
        /\ gc[r].by # {}
        /\ \A c \in gc[r].by : \A o \in Offsets :
            o <= gc[r].last => kafkaOf[c][r][o] # None

\* "WAL GC requires all required consumers (typically DB_WRITER) to have
\* committed": no decision is eligible while a required consumer misses a
\* record of the segment.
GcNeedsAllRequired ==
    \A r \in Runs : gc[r].last # None =>
        \A c \in Required : \A o \in Offsets :
            o <= gc[r].last => kafkaOf[c][r][o] # None

\* "Recommitting the same offset with the same event_id is idempotent": a
\* record that is delivered to a consumer that has stored it is no conflict.
RecommitIsIdempotent ==
    \A c \in Consumers : \A k \in 0 .. Len(broker) - 1 :
        LET e == At(k)
        IN  /\ Delivers(c, k, 1)
            /\ kafkaOf[c][e.run][e.off] # None
            => Accepts(c, k, 1)

\* No checkpoint or cursor is lowered, and no stored record is moved.
KeepsProgress ==
    /\ \A r \in Runs : relayCkpt'[r] >= relayCkpt[r]
    /\ \A c \in Consumers : cursor'[c] >= cursor[c]
    /\ \A c \in Consumers, r \in Runs :
        /\ dbCkpt'[c][r] >= dbCkpt[c][r]
        /\ reqCkpt'[c][r] >= reqCkpt[c][r]
        /\ \A o \in Offsets :
            kafkaOf[c][r][o] # None => kafkaOf'[c][r][o] = kafkaOf[c][r][o]

\* Progress is never taken back: no step of the relay or of a DB writer, cut
\* off anywhere, lowers a checkpoint or a cursor, or stores a record under
\* another kafka offset than the one it was first committed with.
ProgressIsMonotonic == [][KeepsProgress]_pipelineVars

\* The relay has published a record twice.
Republished ==
    \E j, k \in 1 .. Len(broker) : j # k /\ broker[j] = broker[k]

\* If no batch is ever published twice, every appended record is in the end
\* committed by every consumer, after any failures of the stores: a retry that
\* meets what an interrupted pass had already written goes through.
AppendedIsCommitted ==
    \A c \in Consumers, r \in Runs, o \in Offsets :
        (appended[r] > o) ~> (kafkaOf[c][r][o] # None \/ Republished)

=============================================================================
