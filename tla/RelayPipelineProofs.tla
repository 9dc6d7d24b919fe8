------------------------- MODULE RelayPipelineProofs -------------------------
(***************************************************************************)
(* Proofs that the sidecar pipeline loses nothing, for every number of     *)
(* runs, consumers, records and failing calls.                             *)
(***************************************************************************)
EXTENDS RelayPipeline, SequenceTheorems, TLAPS

\* The positions of a consumer lie in the partition.
PositionsInBroker ==
    \A c \in Consumers : polled[c] < Len(broker) /\ cursor[c] < Len(broker)

\* The inductive invariant: what the broker holds is in WAL order, and each
\* store of a consumer is backed by the one written before it.
PipelineInv ==
    /\ PipelineTypeOK
    /\ BrokerInWalOrder
    /\ CheckpointCoversPrefix
    /\ StoredWhereBrokerHasIt
    /\ ResumeLosesNothing
    /\ StoresInOrder
    /\ GcOnlyAfterCommit
    /\ PositionsInBroker

-----------------------------------------------------------------------------
(* The batch a DB writer is given.                                          *)

\* A record of the partition has a run and an offset.
LEMMA AtType ==
    ASSUME PipelineTypeOK, NEW k \in 0 .. Len(broker) - 1
    PROVE  At(k) \in Record /\ At(k).run \in Runs /\ At(k).off \in Offsets
<1>1. broker \in Seq(Record) /\ k + 1 \in 1 .. Len(broker)
  BY DEF PipelineTypeOK
<1>2. At(k) \in Record
  BY <1>1, ElementOfSeq DEF At
<1> QED
  BY <1>2 DEF Record

\* A batch that passes _validate_batch is a run of consecutive records.
LEMMA BatchFacts ==
    ASSUME PipelineTypeOK, PipelineAssumption,
           NEW c \in Consumers, NEW first \in 0 .. Len(broker) - 1,
           NEW n \in 1 .. MaxBatch,
           Delivers(c, first, n), ValidBatch(first, n)
    PROVE  /\ At(first).run \in Runs
           /\ At(first).off \in Offsets
           /\ n \in Nat /\ n > 0 /\ first + n - 1 \in 0 .. Len(broker) - 1
           /\ LastOffset(first, n) \in Offsets
           /\ LastOffset(first, n) = At(first).off + n - 1
           /\ \A k \in first .. first + n - 1 :
                At(k) = [run |-> At(first).run, off |-> At(first).off + (k - first)]
<1>1. At(first).run \in Runs /\ At(first).off \in Offsets
  BY AtType
<1>2. n \in Nat /\ n > 0 /\ first + n - 1 \in 0 .. Len(broker) - 1
  <2>1. Len(broker) \in Nat
    BY DEF PipelineTypeOK
  <2> QED
    BY <2>1 DEF Delivers, PipelineAssumption
<1>3. ASSUME NEW k \in first .. first + n - 1
      PROVE  At(k) = [run |-> At(first).run, off |-> At(first).off + (k - first)]
  <2>1. k \in 0 .. Len(broker) - 1
    BY <1>2
  <2>2. At(k) \in Record
    BY <2>1, AtType
  <2>3. At(k).run = At(first).run /\ At(k).off = At(first).off + (k - first)
    BY DEF ValidBatch
  <2> QED
    BY <2>2, <2>3 DEF Record
<1>4. LastOffset(first, n) \in Offsets
  <2>1. At(first + n - 1).off = At(first).off + ((first + n - 1) - first)
    BY <1>2 DEF ValidBatch
  <2>2. At(first + n - 1).off \in Offsets
    BY <1>2, AtType
  <2>3. At(first).off \in Int
    BY <1>1 DEF Offsets
  <2> QED
    BY <1>2, <2>1, <2>2, <2>3 DEF LastOffset
<1> QED
  BY <1>1, <1>2, <1>3, <1>4 DEF LastOffset

\* The new records of an accepted batch are all those between the checkpoint
\* and the end of the batch.  Without a checkpoint the code checks no gap;
\* the batch starts at offset 0 because the partition is in WAL order and
\* everything before the batch is committed.
LEMMA NewOffsetsComplete ==
    ASSUME PipelineInv, PipelineAssumption,
           NEW c \in Consumers, NEW first \in 0 .. Len(broker) - 1,
           NEW n \in 1 .. MaxBatch, Commits(c, first, n)
    PROVE  \A o \in Offsets :
             /\ o > dbCkpt[c][At(first).run]
             /\ o <= LastOffset(first, n)
             => o \in NewOffsets(c, first, n)
<1> DEFINE r == At(first).run
<1>0. PipelineTypeOK /\ Delivers(c, first, n) /\ ValidBatch(first, n)
  BY DEF PipelineInv, Commits, Accepts
<1>1. /\ r \in Runs /\ At(first).off \in Offsets
      /\ n \in Nat /\ n > 0
      /\ LastOffset(first, n) = At(first).off + n - 1
  BY <1>0, BatchFacts
<1>2. dbCkpt[c][r] \in Offsets \cup {None}
  BY <1>0, <1>1 DEF PipelineTypeOK
<1>4. At(first).off \in Int /\ dbCkpt[c][r] \in Int
  BY <1>1, <1>2 DEF Offsets, None
<1>3. At(first).off <= dbCkpt[c][r] + 1
  <2>1. CASE dbCkpt[c][r] # None
    <3>1. dbCkpt[c][r] + 1 \in NewOffsets(c, first, n)
      BY <2>1 DEF Commits, Accepts, NoGap
    <3> QED
      BY <3>1, <1>1 DEF NewOffsets
  <2>2. CASE dbCkpt[c][r] = None
    <3>1. SUFFICES ASSUME At(first).off > 0 PROVE FALSE
      BY <1>1, <2>2 DEF None, Offsets
    <3>2. Len(broker) \in Nat
      BY <1>0 DEF PipelineTypeOK
    <3>3. first + 1 \in 1 .. Len(broker) /\ broker[first + 1].off > 0
      BY <3>1, <3>2 DEF At
    <3>4. PICK j \in 1 .. first : broker[j] = [run |-> r, off |-> At(first).off - 1]
      <4>1. \E j \in 1 .. (first + 1) - 1 :
              broker[j] = [run |-> broker[first + 1].run, off |-> broker[first + 1].off - 1]
        BY <3>3 DEF PipelineInv, BrokerInWalOrder
      <4> QED
        BY <4>1 DEF At
    <3>5. j - 1 \in 0 .. Len(broker) - 1 /\ At(j - 1) = [run |-> r, off |-> At(first).off - 1]
      BY <3>2, <3>4 DEF At
    <3>6. polled[c] \in Int /\ cursor[c] \in Int
      BY <1>0 DEF PipelineTypeOK, None
    <3>7. j - 1 <= Later(polled[c], cursor[c])
      BY <1>0, <3>4, <3>6 DEF Delivers, Later
    <3>8. At(j - 1).off <= dbCkpt[c][At(j - 1).run]
      BY <3>5, <3>7 DEF PipelineInv, ResumeLosesNothing
    <3>9. At(j - 1).off = At(first).off - 1 /\ At(j - 1).run = r
      BY <3>5
    <3>10. At(first).off - 1 <= None
      BY <3>8, <3>9, <2>2
    <3> QED
      BY <3>10, <3>1, <1>4 DEF None
  <2> QED
    BY <2>1, <2>2
<1>5. ASSUME NEW o \in Offsets, o > dbCkpt[c][r], o <= LastOffset(first, n)
      PROVE  o \in NewOffsets(c, first, n)
  <2>1. o \in Int
    BY DEF Offsets
  <2>2. o \in At(first).off .. At(first).off + n - 1
    BY SMTT(30), <1>1, <1>3, <1>4, <1>5, <2>1
  <2> QED
    BY <1>5, <2>2 DEF NewOffsets
<1> QED
  BY <1>5

-----------------------------------------------------------------------------
(* What the writes of a batch change.                                       *)

\* The new offsets are offsets of records in the batch.
LEMMA NewOffsetsInBatch ==
    ASSUME PipelineTypeOK, PipelineAssumption,
           NEW c \in Consumers, NEW first \in 0 .. Len(broker) - 1,
           NEW n \in 1 .. MaxBatch, Commits(c, first, n),
           NEW o \in NewOffsets(c, first, n)
    PROVE  /\ o \in Offsets
           /\ o > dbCkpt[c][At(first).run]
           /\ o <= LastOffset(first, n)
           /\ first + (o - At(first).off) \in first .. first + n - 1
           /\ At(first + (o - At(first).off)) = [run |-> At(first).run, off |-> o]
<1> DEFINE k == first + (o - At(first).off)
<1>1. Delivers(c, first, n) /\ ValidBatch(first, n)
  BY DEF Commits, Accepts
<1>2. /\ At(first).off \in Offsets
      /\ n \in Nat /\ first + n - 1 \in 0 .. Len(broker) - 1
      /\ LastOffset(first, n) = At(first).off + n - 1
      /\ \A j \in first .. first + n - 1 :
           At(j) = [run |-> At(first).run, off |-> At(first).off + (j - first)]
  BY <1>1, BatchFacts
<1>3. At(first).off \in Int
  BY <1>2 DEF Offsets
<1>4. o \in At(first).off .. At(first).off + n - 1 /\ o > dbCkpt[c][At(first).run]
  BY DEF NewOffsets
<1>5. k \in first .. first + n - 1
  BY SMTT(30), <1>2, <1>3, <1>4
<1>6. At(k) = [run |-> At(first).run, off |-> At(first).off + (k - first)]
  BY <1>2, <1>5
<1>7. At(first).off + (k - first) = o
  BY SMTT(30), <1>2, <1>3, <1>4
<1>8. o \in Offsets
  <2>1. k \in 0 .. Len(broker) - 1
    BY <1>2, <1>5
  <2>2. At(k).off \in Offsets
    BY <2>1, AtType
  <2> QED
    BY <1>6, <1>7, <2>2
<1>9. o <= LastOffset(first, n)
  BY <1>2, <1>3, <1>4
<1> QED
  BY <1>4, <1>5, <1>6, <1>7, <1>8, <1>9

\* A batch with new records ends above the checkpoint.
LEMMA CommitAdvances ==
    ASSUME PipelineTypeOK, PipelineAssumption,
           NEW c \in Consumers, NEW first \in 0 .. Len(broker) - 1,
           NEW n \in 1 .. MaxBatch, Commits(c, first, n)
    PROVE  dbCkpt[c][At(first).run] < LastOffset(first, n)
<1>1. Delivers(c, first, n) /\ ValidBatch(first, n)
  BY DEF Commits, Accepts
<1>2. At(first).run \in Runs /\ LastOffset(first, n) \in Offsets
  BY <1>1, BatchFacts
<1>3. PICK o \in NewOffsets(c, first, n) : TRUE
  BY DEF Commits
<1>4. o \in Offsets /\ o > dbCkpt[c][At(first).run] /\ o <= LastOffset(first, n)
  BY NewOffsetsInBatch
<1>5. dbCkpt[c][At(first).run] \in Int
  BY <1>2 DEF PipelineTypeOK, Offsets, None
<1> QED
  BY <1>2, <1>4, <1>5 DEF Offsets

\* commit_records stores the new records and changes nothing else.
LEMMA CommittedAt ==
    ASSUME PipelineTypeOK, PipelineAssumption,
           NEW c \in Consumers, NEW first \in 0 .. Len(broker) - 1,
           NEW n \in 1 .. MaxBatch, Commits(c, first, n)
    PROVE  /\ Committed(c, first, n) \in [Consumers -> [Runs -> [Offsets -> Nat \cup {None}]]]
           /\ \A d \in Consumers, q \in Runs, o \in Offsets :
                Committed(c, first, n)[d][q][o] =
                    IF d = c /\ q = At(first).run /\ o \in NewOffsets(c, first, n)
                    THEN first + (o - At(first).off)
                    ELSE kafkaOf[d][q][o]
<1> DEFINE r == At(first).run
           new == NewOffsets(c, first, n)
           row == [o \in Offsets |-> IF o \in new THEN first + (o - At(first).off)
                                                  ELSE kafkaOf[c][r][o]]
<1>1. Delivers(c, first, n) /\ ValidBatch(first, n)
  BY DEF Commits, Accepts
<1>2. r \in Runs /\ At(first).off \in Offsets
  BY <1>1, BatchFacts
<1>3. kafkaOf \in [Consumers -> [Runs -> [Offsets -> Nat \cup {None}]]]
  BY DEF PipelineTypeOK
<1>4. \A o \in new : first + (o - At(first).off) \in Nat
  <2>1. ASSUME NEW o \in new PROVE first + (o - At(first).off) \in Nat
    <3>1. first + (o - At(first).off) \in first .. first + n - 1
      BY NewOffsetsInBatch
    <3>2. first \in Nat /\ n \in Int
      BY DEF PipelineTypeOK
    <3> QED
      BY <3>1, <3>2
  <2> QED
    BY <2>1
<1>5. row \in [Offsets -> Nat \cup {None}]
  <2> HIDE DEF new
  <2> QED
    BY <1>2, <1>3, <1>4
<1>6. Committed(c, first, n) = [kafkaOf EXCEPT ![c] = [kafkaOf[c] EXCEPT ![r] = row]]
  BY <1>2, <1>3, Zenon DEF Committed
<1> HIDE DEF row, new
<1>7. Committed(c, first, n) \in [Consumers -> [Runs -> [Offsets -> Nat \cup {None}]]]
  BY <1>2, <1>3, <1>5, <1>6
<1>8. ASSUME NEW d \in Consumers, NEW q \in Runs, NEW o \in Offsets
      PROVE  Committed(c, first, n)[d][q][o] =
                    IF d = c /\ q = r /\ o \in new
                    THEN first + (o - At(first).off)
                    ELSE kafkaOf[d][q][o]
  <2>1. CASE d = c /\ q = r
    <3>1. Committed(c, first, n)[d][q] = row
      BY <1>2, <1>3, <1>6, <2>1
    <3> QED
      BY <3>1, <2>1 DEF row
  <2>2. CASE ~(d = c /\ q = r)
    <3>1. Committed(c, first, n)[d][q] = kafkaOf[d][q]
      BY <1>2, <1>3, <1>6, <2>2
    <3> QED
      BY <3>1, <2>2
  <2> QED
    BY <2>1, <2>2
<1> QED
  BY <1>7, <1>8 DEF new

\* The stores after the first `done` writes, entry by entry.
LEMMA WritesAt ==
    ASSUME PipelineTypeOK, PipelineAssumption,
           NEW c \in Consumers, NEW first \in 0 .. Len(broker) - 1,
           NEW n \in 1 .. MaxBatch, NEW done \in 0 .. 4,
           Commits(c, first, n), CommitWrites(c, first, n, done)
    PROVE  /\ kafkaOf' \in [Consumers -> [Runs -> [Offsets -> Nat \cup {None}]]]
           /\ dbCkpt' \in [Consumers -> [Runs -> Offsets \cup {None}]]
           /\ reqCkpt' \in [Consumers -> [Runs -> Offsets \cup {None}]]
           /\ cursor' \in [Consumers -> Nat \cup {None}]
           /\ \A d \in Consumers, q \in Runs, o \in Offsets :
                kafkaOf'[d][q][o] =
                    IF done >= 1 /\ d = c /\ q = At(first).run /\ o \in NewOffsets(c, first, n)
                    THEN first + (o - At(first).off) ELSE kafkaOf[d][q][o]
           /\ \A d \in Consumers, q \in Runs :
                dbCkpt'[d][q] = IF done >= 2 /\ d = c /\ q = At(first).run
                                THEN LastOffset(first, n) ELSE dbCkpt[d][q]
           /\ \A d \in Consumers, q \in Runs :
                reqCkpt'[d][q] = IF done >= 3 /\ d = c /\ q = At(first).run
                                 THEN LastOffset(first, n) ELSE reqCkpt[d][q]
           /\ \A d \in Consumers :
                cursor'[d] = IF done >= 4 /\ d = c THEN first + n - 1 ELSE cursor[d]
<1> DEFINE r == At(first).run
           last == LastOffset(first, n)
<1>1. Delivers(c, first, n) /\ ValidBatch(first, n)
  BY DEF Commits, Accepts
<1>2. r \in Runs /\ last \in Offsets /\ first + n - 1 \in Nat
  BY <1>1, BatchFacts
<1>3. /\ kafkaOf' = IF done >= 1 THEN Committed(c, first, n) ELSE kafkaOf
      /\ dbCkpt' = IF done >= 2 THEN [dbCkpt EXCEPT ![c][r] = last] ELSE dbCkpt
      /\ reqCkpt' = IF done >= 3 THEN [reqCkpt EXCEPT ![c][r] = last] ELSE reqCkpt
      /\ cursor' = IF done >= 4 THEN [cursor EXCEPT ![c] = first + n - 1] ELSE cursor
  BY DEF CommitWrites
<1>4. /\ kafkaOf' \in [Consumers -> [Runs -> [Offsets -> Nat \cup {None}]]]
      /\ \A d \in Consumers, q \in Runs, o \in Offsets :
           kafkaOf'[d][q][o] =
               IF done >= 1 /\ d = c /\ q = r /\ o \in NewOffsets(c, first, n)
               THEN first + (o - At(first).off) ELSE kafkaOf[d][q][o]
  <2>1. CASE done >= 1
    <3>1. kafkaOf' = Committed(c, first, n)
      BY <1>3, <2>1
    <3>2. /\ Committed(c, first, n) \in [Consumers -> [Runs -> [Offsets -> Nat \cup {None}]]]
          /\ \A d \in Consumers, q \in Runs, o \in Offsets :
               Committed(c, first, n)[d][q][o] =
                   IF d = c /\ q = r /\ o \in NewOffsets(c, first, n)
                   THEN first + (o - At(first).off) ELSE kafkaOf[d][q][o]
      BY CommittedAt
    <3> HIDE DEF r
    <3> QED
      BY <3>1, <3>2, <2>1
  <2>2. CASE ~(done >= 1)
    <3>1. kafkaOf' = kafkaOf
      BY <1>3, <2>2
    <3>2. kafkaOf \in [Consumers -> [Runs -> [Offsets -> Nat \cup {None}]]]
      BY DEF PipelineTypeOK
    <3> QED
      BY <3>1, <3>2, <2>2, Zenon
  <2> QED
    BY <2>1, <2>2
<1> HIDE DEF r, last
<1>5. /\ dbCkpt' \in [Consumers -> [Runs -> Offsets \cup {None}]]
      /\ \A d \in Consumers, q \in Runs :
           dbCkpt'[d][q] = IF done >= 2 /\ d = c /\ q = r THEN last ELSE dbCkpt[d][q]
  <2>1. dbCkpt \in [Consumers -> [Runs -> Offsets \cup {None}]]
    BY DEF PipelineTypeOK
  <2> QED
    BY <1>2, <1>3, <2>1
<1>6. /\ reqCkpt' \in [Consumers -> [Runs -> Offsets \cup {None}]]
      /\ \A d \in Consumers, q \in Runs :
           reqCkpt'[d][q] = IF done >= 3 /\ d = c /\ q = r THEN last ELSE reqCkpt[d][q]
  <2>1. reqCkpt \in [Consumers -> [Runs -> Offsets \cup {None}]]
    BY DEF PipelineTypeOK
  <2> QED
    BY <1>2, <1>3, <2>1
<1>7. /\ cursor' \in [Consumers -> Nat \cup {None}]
      /\ \A d \in Consumers :
           cursor'[d] = IF done >= 4 /\ d = c THEN first + n - 1 ELSE cursor[d]
  <2>1. cursor \in [Consumers -> Nat \cup {None}]
    BY DEF PipelineTypeOK
  <2> QED
    BY <1>2, <1>3, <2>1
<1> QED
  BY <1>4, <1>5, <1>6, <1>7 DEF r, last

-----------------------------------------------------------------------------
(* A batch of a DB writer, cut off after any of its writes.                 *)

LEMMA CommitKeepsStores ==
    ASSUME PipelineInv, PipelineAssumption,
           NEW c \in Consumers, NEW first \in 0 .. Len(broker) - 1,
           NEW n \in 1 .. MaxBatch, NEW done \in 0 .. 4,
           Commits(c, first, n), CommitWrites(c, first, n, done),
           UNCHANGED <<appended, broker, relayCkpt, gc>>,
           \/ polled' = polled
           \/ done = 4 /\ polled' = [polled EXCEPT ![c] = Later(@, first + n - 1)]
    PROVE  /\ polled' \in [Consumers -> Nat \cup {None}]
           /\ BrokerInWalOrder'
           /\ CheckpointCoversPrefix'
           /\ StoredWhereBrokerHasIt'
           /\ ResumeLosesNothing'
           /\ StoresInOrder'
           /\ GcOnlyAfterCommit'
           /\ PositionsInBroker'
<1> DEFINE r == At(first).run
           last == LastOffset(first, n)
           new == NewOffsets(c, first, n)
<1>0. PipelineTypeOK /\ Delivers(c, first, n) /\ ValidBatch(first, n) /\ Len(broker) \in Nat
  BY DEF PipelineInv, Commits, Accepts, PipelineTypeOK
<1>1. /\ r \in Runs /\ last \in Offsets /\ At(first).off \in Offsets
      /\ n \in Nat /\ n > 0 /\ first + n - 1 \in 0 .. Len(broker) - 1
      /\ last = At(first).off + n - 1
      /\ \A k \in first .. first + n - 1 :
            At(k) = [run |-> r, off |-> At(first).off + (k - first)]
  BY <1>0, BatchFacts
<1>2. \A o \in Offsets : o > dbCkpt[c][r] /\ o <= last => o \in new
  BY NewOffsetsComplete
<1>3. dbCkpt[c][r] < last
  BY <1>0, CommitAdvances
<1>4. \A o \in new : /\ o \in Offsets
                     /\ first + (o - At(first).off) \in first .. first + n - 1
                     /\ At(first + (o - At(first).off)) = [run |-> r, off |-> o]
  BY <1>0, NewOffsetsInBatch
<1>5. /\ \A d \in Consumers, q \in Runs, o \in Offsets :
           kafkaOf'[d][q][o] =
               IF done >= 1 /\ d = c /\ q = r /\ o \in new
               THEN first + (o - At(first).off) ELSE kafkaOf[d][q][o]
      /\ \A d \in Consumers, q \in Runs :
           dbCkpt'[d][q] = IF done >= 2 /\ d = c /\ q = r THEN last ELSE dbCkpt[d][q]
      /\ \A d \in Consumers, q \in Runs :
           reqCkpt'[d][q] = IF done >= 3 /\ d = c /\ q = r THEN last ELSE reqCkpt[d][q]
      /\ \A d \in Consumers :
           cursor'[d] = IF done >= 4 /\ d = c THEN first + n - 1 ELSE cursor[d]
  BY SMTT(30), <1>0, WritesAt
<1>6. /\ \A d \in Consumers, q \in Runs : dbCkpt[d][q] \in Int /\ reqCkpt[d][q] \in Int
      /\ \A d \in Consumers : polled[d] \in Int /\ cursor[d] \in Int
      /\ \A o \in Offsets : o \in Int
  BY <1>0 DEF PipelineTypeOK, Offsets, None
<1> HIDE DEF r, last, new
<1>9. polled' \in [Consumers -> Nat \cup {None}]
  <2>1. polled \in [Consumers -> Nat \cup {None}]
    BY <1>0 DEF PipelineTypeOK
  <2> QED
    BY <1>1, <2>1 DEF Later, None
<1>10. BrokerInWalOrder'
  BY DEF PipelineInv, BrokerInWalOrder
<1>7. first \in Int /\ n \in Int /\ At(first).off \in Int /\ last \in Int
      /\ last = At(first).off + n - 1
  <2>1. last \in Int /\ At(first).off \in Int
    BY <1>1, <1>6
  <2>2. n \in Nat /\ last = At(first).off + n - 1
    BY <1>1
  <2> QED
    BY <2>1, <2>2
<1>8. \A o \in new : first + (o - At(first).off) # None
  <2>1. ASSUME NEW o \in new PROVE first + (o - At(first).off) # None
    <3>1. first + (o - At(first).off) \in first .. first + n - 1
      BY <1>4
    <3> QED
      BY <3>1, <1>7 DEF None
  <2> QED
    BY <2>1
<1>11. \A d \in Consumers, q \in Runs, o \in Offsets :
         kafkaOf[d][q][o] # None => kafkaOf'[d][q][o] # None
  BY <1>5, <1>8
<1>12. CheckpointCoversPrefix'
  <2>1. SUFFICES ASSUME NEW d \in Consumers, NEW q \in Runs, NEW o \in Offsets,
                        o <= dbCkpt'[d][q]
                 PROVE  kafkaOf'[d][q][o] # None
    BY DEF CheckpointCoversPrefix
  <2>2. CASE o <= dbCkpt[d][q]
    BY <2>2, <1>11 DEF PipelineInv, CheckpointCoversPrefix
  <2>3. CASE ~(o <= dbCkpt[d][q])
    <3>1. done >= 2 /\ d = c /\ q = r /\ o <= last
      BY <2>1, <2>3, <1>5
    <3>2. o \in new
      BY <3>1, <2>3, <1>2, <1>6
    <3>3. kafkaOf'[d][q][o] = first + (o - At(first).off)
      BY <3>1, <3>2, <1>5
    <3> QED
      BY <3>2, <3>3, <1>8
  <2> QED
    BY <2>2, <2>3
<1>13. StoredWhereBrokerHasIt'
  <2>1. SUFFICES ASSUME NEW d \in Consumers, NEW q \in Runs, NEW o \in Offsets,
                        kafkaOf'[d][q][o] # None
                 PROVE  /\ kafkaOf'[d][q][o] < Len(broker)
                        /\ broker[kafkaOf'[d][q][o] + 1] = [run |-> q, off |-> o]
    BY DEF StoredWhereBrokerHasIt, At
  <2>2. CASE done >= 1 /\ d = c /\ q = r /\ o \in new
    <3>1. kafkaOf'[d][q][o] = first + (o - At(first).off)
      BY <2>2, <1>5
    <3>2. first + (o - At(first).off) \in first .. first + n - 1
      BY <2>2, <1>4
    <3>3. broker[(first + (o - At(first).off)) + 1] = [run |-> r, off |-> o]
      BY <2>2, <1>4 DEF At
    <3>4. first + (o - At(first).off) < Len(broker)
      BY <3>2, <1>0, <1>1
    <3> QED
      BY <3>1, <3>3, <3>4, <2>2
  <2>3. CASE ~(done >= 1 /\ d = c /\ q = r /\ o \in new)
    <3>1. kafkaOf'[d][q][o] = kafkaOf[d][q][o]
      BY <2>3, <1>5
    <3> QED
      BY <3>1, <2>1 DEF PipelineInv, StoredWhereBrokerHasIt, At
  <2> QED
    BY <2>2, <2>3
<1>14. \A d \in Consumers, q \in Runs : dbCkpt'[d][q] \in Int /\ dbCkpt[d][q] <= dbCkpt'[d][q]
  BY SMTT(30), <1>1, <1>3, <1>5, <1>6
<1>15. \A d \in Consumers :
         /\ polled'[d] \in {polled[d], first + n - 1}
         /\ cursor'[d] \in {cursor[d], first + n - 1}
         /\ (polled'[d] # polled[d] \/ cursor'[d] # cursor[d]) => d = c /\ done = 4
  <2>1. polled \in [Consumers -> Nat \cup {None}]
    BY <1>0 DEF PipelineTypeOK
  <2> QED
    BY <2>1, <1>5 DEF Later
<1>16. ResumeLosesNothing'
  <2>1. SUFFICES ASSUME NEW d \in Consumers, NEW k \in 0 .. Len(broker) - 1,
                        k <= Later(polled'[d], cursor'[d])
                 PROVE  broker[k + 1].off <= dbCkpt'[d][broker[k + 1].run]
    BY DEF ResumeLosesNothing, At, Later
  <2>2. At(k).run \in Runs /\ At(k).off \in Int /\ k \in Int
    BY <1>0, <1>6, AtType
  <2>3. CASE k <= Later(polled[d], cursor[d])
    <3>1. At(k).off <= dbCkpt[d][At(k).run]
      BY <2>3 DEF PipelineInv, ResumeLosesNothing
    <3>2. dbCkpt[d][At(k).run] \in Int /\ dbCkpt'[d][At(k).run] \in Int
          /\ dbCkpt[d][At(k).run] <= dbCkpt'[d][At(k).run]
      BY <2>2, <1>6, <1>14
    <3>3. At(k).off <= dbCkpt'[d][At(k).run]
      BY <3>1, <3>2, <2>2
    <3> QED
      BY <3>3 DEF At
  <2>4. CASE ~(k <= Later(polled[d], cursor[d]))
    <3>1. polled[d] \in Int /\ cursor[d] \in Int
      BY <1>6
    <3>a. /\ polled'[d] \in {polled[d], first + n - 1}
          /\ cursor'[d] \in {cursor[d], first + n - 1}
          /\ (polled'[d] # polled[d] \/ cursor'[d] # cursor[d]) => d = c /\ done = 4
      BY <1>15
    <3>b. k > polled[d] /\ k > cursor[d] /\ (k <= polled'[d] \/ k <= cursor'[d])
      <4>1. k > polled[d] /\ k > cursor[d]
        BY <2>2, <2>4, <3>1 DEF Later
      <4>2. k <= polled'[d] \/ k <= cursor'[d]
        BY <2>1 DEF Later
      <4> QED
        BY <4>1, <4>2
    <3>2. d = c /\ done = 4 /\ k <= first + n - 1
      BY SMTT(30), <2>2, <3>1, <3>a, <3>b, <1>7
    <3>3. first <= k
      BY <3>1, <3>2, <2>2, <2>4, <1>0 DEF Delivers, Later
    <3>4. k \in first .. first + n - 1
      BY <3>2, <3>3, <2>2, <1>1
    <3>5. At(k) = [run |-> r, off |-> At(first).off + (k - first)]
      BY <3>4, <1>1
    <3>6. At(k).run = r /\ At(k).off = At(first).off + (k - first)
      BY <3>5
    <3>7. At(k).off <= last
      BY SMTT(30), <3>4, <3>6, <1>7, <2>2
    <3>8. dbCkpt'[d][r] = last
      BY <3>2, <1>1, <1>5
    <3> QED
      BY <3>6, <3>7, <3>8 DEF At
  <2> QED
    BY <2>3, <2>4
<1>17. StoresInOrder'
  <2>1. SUFFICES ASSUME NEW d \in Consumers, NEW q \in Runs
                 PROVE  reqCkpt'[d][q] <= dbCkpt'[d][q]
    BY DEF StoresInOrder
  <2>2. reqCkpt[d][q] <= dbCkpt[d][q]
    BY DEF PipelineInv, StoresInOrder
  <2>3. /\ reqCkpt'[d][q] = IF done >= 3 /\ d = c /\ q = r THEN last ELSE reqCkpt[d][q]
        /\ dbCkpt'[d][q] = IF done >= 2 /\ d = c /\ q = r THEN last ELSE dbCkpt[d][q]
    BY <1>5
  <2>4. /\ dbCkpt'[d][q] \in Int /\ dbCkpt[d][q] \in Int /\ reqCkpt[d][q] \in Int
        /\ dbCkpt[d][q] <= dbCkpt'[d][q]
    BY <1>6, <1>14
  <2>5. CASE done >= 3 /\ d = c /\ q = r
    BY <2>3, <2>5, <1>7
  <2>6. CASE ~(done >= 3 /\ d = c /\ q = r)
    BY <2>2, <2>3, <2>4, <2>6
  <2> QED
    BY <2>5, <2>6
<1>18. GcOnlyAfterCommit'
  <2>1. \A q \in Runs : gc[q].by \subseteq Consumers
    <3>1. gc \in [Runs -> [last : Offsets \cup {None}, by : SUBSET Required]]
      BY <1>0 DEF PipelineTypeOK
    <3> QED
      BY <3>1 DEF PipelineAssumption
  <2>2. gc' = gc
    OBVIOUS
  <2> QED
    BY <2>1, <2>2, <1>11 DEF PipelineInv, GcOnlyAfterCommit
<1>19. PositionsInBroker'
  BY SMTT(30), <1>0, <1>1, <1>15 DEF PipelineInv, PositionsInBroker
<1> QED
  BY <1>9, <1>10, <1>12, <1>13, <1>16, <1>17, <1>18, <1>19

-----------------------------------------------------------------------------
(* A batch of the relay.                                                    *)

\* The partition after a publish: what it held, then the records after the
\* relay's checkpoint.
LEMMA PublishedAt ==
    ASSUME PipelineTypeOK, BrokerInWalOrder, PipelineAssumption,
           NEW r \in Runs, NEW max \in 1 .. MaxBatch, BatchSize(r, max) > 0
    PROVE  /\ BatchSize(r, max) \in Nat
           /\ relayCkpt[r] \in Int /\ relayCkpt[r] + 1 \in Nat
           /\ BatchLast(r, max) \in Offsets
           /\ BatchLast(r, max) = relayCkpt[r] + BatchSize(r, max)
           /\ BatchLast(r, max) < appended[r]
           /\ Published(r, max) \in Seq(Record)
           /\ Len(Published(r, max)) = Len(broker) + BatchSize(r, max)
           /\ \A k \in 1 .. Len(broker) : Published(r, max)[k] = broker[k]
           /\ \A i \in 1 .. BatchSize(r, max) :
                Published(r, max)[Len(broker) + i] = [run |-> r, off |-> relayCkpt[r] + i]
<1> DEFINE size == BatchSize(r, max)
           tail == [i \in 1 .. size |-> [run |-> r, off |-> relayCkpt[r] + i]]
<1>1. appended[r] \in 0 .. MaxRecords /\ relayCkpt[r] \in Offsets \cup {None}
      /\ broker \in Seq(Record)
  BY DEF PipelineTypeOK
<1>2. relayCkpt[r] \in Int /\ relayCkpt[r] + 1 \in Nat /\ MaxRecords \in Nat
      /\ appended[r] \in Nat /\ appended[r] <= MaxRecords /\ max \in Nat
  BY <1>1 DEF Offsets, None, PipelineAssumption
<1>3. /\ size \in Nat /\ relayCkpt[r] + size < appended[r]
      /\ \A i \in 1 .. size : relayCkpt[r] + i \in Offsets
  BY <1>2 DEF BatchSize, Offsets
<1> HIDE DEF size
<1>4. tail \in Seq(Record) /\ Len(tail) = size
  <2>1. \A i \in 1 .. size : [run |-> r, off |-> relayCkpt[r] + i] \in Record
    BY <1>3 DEF Record
  <2>2. tail \in [1 .. size -> Record]
    BY <2>1
  <2> QED
    BY <1>3, <2>2
<1>5. Published(r, max) = broker \o tail
  BY DEF Published, size
<1> HIDE DEF tail
<1>6. /\ Published(r, max) \in Seq(Record)
      /\ Len(Published(r, max)) = Len(broker) + size
      /\ \A k \in 1 .. Len(broker) : Published(r, max)[k] = broker[k]
      /\ \A i \in 1 .. size : Published(r, max)[Len(broker) + i] = tail[i]
  <2>1. broker \o tail \in Seq(Record)
    BY <1>1, <1>4, ConcatProperties
  <2>2. Len(broker \o tail) = Len(broker) + Len(tail)
    BY <1>1, <1>4, ConcatProperties
  <2>3. \A k \in 1 .. Len(broker) + Len(tail) :
          (broker \o tail)[k] = IF k <= Len(broker) THEN broker[k] ELSE tail[k - Len(broker)]
    BY <1>1, <1>4, ConcatProperties
  <2>4. Len(broker) \in Nat
    BY <1>1
  <2> QED
    BY <1>3, <1>4, <1>5, <2>1, <2>2, <2>3, <2>4
<1>7. BatchLast(r, max) = relayCkpt[r] + size /\ size \in 1 .. size
  BY <1>3 DEF BatchLast, size
<1> QED
  BY <1>2, <1>3, <1>6, <1>7 DEF tail, size

\* Publishing a batch, with or without saving the checkpoint, keeps the
\* partition in WAL order and the consumers' stores backed by it.
LEMMA PublishKeepsOrder ==
    ASSUME PipelineInv, PipelineAssumption,
           NEW r \in Runs, NEW max \in 1 .. MaxBatch, BatchSize(r, max) > 0,
           broker' = Published(r, max),
           \/ relayCkpt' = relayCkpt
           \/ relayCkpt' = [relayCkpt EXCEPT ![r] = BatchLast(r, max)],
           UNCHANGED <<appended, stores, polled, gc>>
    PROVE  /\ broker' \in Seq(Record)
           /\ relayCkpt' \in [Runs -> Offsets \cup {None}]
           /\ BrokerInWalOrder'
           /\ CheckpointCoversPrefix'
           /\ StoredWhereBrokerHasIt'
           /\ ResumeLosesNothing'
           /\ StoresInOrder'
           /\ GcOnlyAfterCommit'
           /\ PositionsInBroker'
<1> DEFINE size == BatchSize(r, max)
<1>0. PipelineTypeOK /\ BrokerInWalOrder /\ Len(broker) \in Nat
  BY DEF PipelineInv, PipelineTypeOK
<1>1. /\ size \in Nat /\ size > 0
      /\ relayCkpt[r] \in Int /\ relayCkpt[r] + 1 \in Nat
      /\ BatchLast(r, max) \in Offsets
      /\ BatchLast(r, max) = relayCkpt[r] + size
      /\ BatchLast(r, max) < appended[r]
      /\ broker' \in Seq(Record)
      /\ Len(broker') = Len(broker) + size
      /\ \A k \in 1 .. Len(broker) : broker'[k] = broker[k]
      /\ \A i \in 1 .. size : broker'[Len(broker) + i] = [run |-> r, off |-> relayCkpt[r] + i]
  BY SMTT(30), <1>0, PublishedAt
<1> HIDE DEF size
<1>2. /\ appended' = appended /\ kafkaOf' = kafkaOf /\ dbCkpt' = dbCkpt /\ reqCkpt' = reqCkpt
      /\ cursor' = cursor /\ polled' = polled /\ gc' = gc
  BY DEF stores
<1>3. relayCkpt \in [Runs -> Offsets \cup {None}] /\ appended \in [Runs -> 0 .. MaxRecords]
  BY <1>0 DEF PipelineTypeOK
<1>4. relayCkpt' \in [Runs -> Offsets \cup {None}]
  BY <1>1, <1>3
<1>5. BrokerInWalOrder'
  <2>1. ASSUME NEW k \in 1 .. Len(broker')
        PROVE  /\ broker'[k].off < appended[broker'[k].run]
               /\ broker'[k].off > 0 =>
                    \E j \in 1 .. k - 1 :
                      broker'[j] = [run |-> broker'[k].run, off |-> broker'[k].off - 1]
    <3>1. CASE k \in 1 .. Len(broker)
      <4>1. broker'[k] = broker[k]
        BY <3>1, <1>1
      <4>2. broker[k].off < appended[broker[k].run]
        BY <3>1, <1>0 DEF BrokerInWalOrder
      <4>3. ASSUME broker[k].off > 0
            PROVE  \E j \in 1 .. k - 1 :
                     broker'[j] = [run |-> broker[k].run, off |-> broker[k].off - 1]
        <5>1. PICK j \in 1 .. k - 1 :
                broker[j] = [run |-> broker[k].run, off |-> broker[k].off - 1]
          BY <3>1, <4>3, <1>0 DEF BrokerInWalOrder
        <5>2. j \in 1 .. Len(broker)
          BY <3>1, <1>0
        <5> QED
          BY <5>1, <5>2, <1>1
      <4> QED
        BY <4>1, <4>2, <4>3
    <3>2. CASE k \notin 1 .. Len(broker)
      <4>1. PICK i \in 1 .. size : k = Len(broker) + i
        <5>1. k - Len(broker) \in 1 .. size /\ k = Len(broker) + (k - Len(broker))
          BY <3>2, <1>0, <1>1
        <5> QED
          BY <5>1
      <4>2. broker'[k] = [run |-> r, off |-> relayCkpt[r] + i]
        BY <4>1, <1>1
      <4>3. broker'[k].run = r /\ broker'[k].off = relayCkpt[r] + i
        BY <4>2
      <4>4. broker'[k].off < appended[r]
        <5>1. appended[r] \in Int
          BY <1>3
        <5> QED
          BY SMTT(30), <4>3, <1>1, <5>1
      <4>5. ASSUME broker'[k].off > 0
            PROVE  \E j \in 1 .. k - 1 :
                     broker'[j] = [run |-> r, off |-> relayCkpt[r] + i - 1]
        <5>1. CASE i = 1
          <6>1. relayCkpt[r] # None
            BY <4>3, <4>5, <5>1, <1>1 DEF None
          <6>2. PICK j \in 1 .. Len(broker) : broker[j] = [run |-> r, off |-> relayCkpt[r]]
            BY <6>1, <1>0 DEF BrokerInWalOrder
          <6>3. broker'[j] = [run |-> r, off |-> relayCkpt[r]]
            BY <6>2, <1>1
          <6>4. j \in 1 .. k - 1 /\ relayCkpt[r] + i - 1 = relayCkpt[r]
            BY <5>1, <4>1, <1>0, <1>1
          <6> QED
            BY <6>3, <6>4
        <5>2. CASE i # 1
          <6>1. i - 1 \in 1 .. size /\ k - 1 = Len(broker) + (i - 1) /\ k - 1 \in 1 .. k - 1
            BY <5>2, <4>1, <1>0, <1>1
          <6>2. broker'[k - 1] = [run |-> r, off |-> relayCkpt[r] + (i - 1)]
            BY <6>1, <1>1
          <6>3. relayCkpt[r] + (i - 1) = relayCkpt[r] + i - 1
            BY <1>1, <4>1
          <6> QED
            BY <6>1, <6>2, <6>3
        <5> QED
          BY <5>1, <5>2
      <4>6. ASSUME broker'[k].off > 0
            PROVE  \E j \in 1 .. k - 1 :
                     broker'[j] = [run |-> broker'[k].run, off |-> broker'[k].off - 1]
        <5>1. PICK j \in 1 .. k - 1 : broker'[j] = [run |-> r, off |-> relayCkpt[r] + i - 1]
          BY <4>5, <4>6
        <5>2. broker'[k].off - 1 = relayCkpt[r] + i - 1
          BY <4>3, <1>1
        <5>3. broker'[j] = [run |-> broker'[k].run, off |-> broker'[k].off - 1]
          BY <5>1, <5>2, <4>3
        <5> QED
          BY <5>3
      <4> QED
        BY <4>3, <4>4, <4>6, Zenon
    <3> QED
      BY <3>1, <3>2
  <2>2. ASSUME NEW q \in Runs, relayCkpt'[q] # None
        PROVE  \E k \in 1 .. Len(broker') : broker'[k] = [run |-> q, off |-> relayCkpt'[q]]
    <3>1. CASE relayCkpt'[q] = relayCkpt[q]
      <4>1. PICK k \in 1 .. Len(broker) : broker[k] = [run |-> q, off |-> relayCkpt[q]]
        BY <2>2, <3>1, <1>0 DEF BrokerInWalOrder
      <4>2. k \in 1 .. Len(broker') /\ broker'[k] = broker[k]
        BY <4>1, <1>0, <1>1
      <4> QED
        BY <4>1, <4>2, <3>1
    <3>2. CASE relayCkpt'[q] # relayCkpt[q]
      <4>1. q = r /\ relayCkpt'[q] = relayCkpt[r] + size
        <5>1. relayCkpt' = [relayCkpt EXCEPT ![r] = BatchLast(r, max)]
          BY <3>2
        <5>2. relayCkpt'[q] = IF q = r THEN BatchLast(r, max) ELSE relayCkpt[q]
          BY <5>1, <1>3
        <5> QED
          BY <5>2, <3>2, <1>1
      <4>2. Len(broker) + size \in 1 .. Len(broker') /\ size \in 1 .. size
        BY <1>0, <1>1
      <4>3. broker'[Len(broker) + size] = [run |-> r, off |-> relayCkpt[r] + size]
        BY <4>2, <1>1
      <4> QED
        BY <4>1, <4>2, <4>3
    <3> QED
      BY <3>1, <3>2
  <2> QED
    BY <2>1, <2>2, <1>2 DEF BrokerInWalOrder
<1>6. \A k \in 0 .. Len(broker) - 1 :
        k \in 0 .. Len(broker') - 1 /\ broker'[k + 1] = broker[k + 1]
  BY <1>0, <1>1
<1>7. StoredWhereBrokerHasIt'
  <2>1. SUFFICES ASSUME NEW c \in Consumers, NEW q \in Runs, NEW o \in Offsets,
                        kafkaOf[c][q][o] # None
                 PROVE  /\ kafkaOf[c][q][o] < Len(broker')
                        /\ broker'[kafkaOf[c][q][o] + 1] = [run |-> q, off |-> o]
    BY <1>2 DEF StoredWhereBrokerHasIt, At
  <2>2. /\ kafkaOf[c][q][o] < Len(broker)
        /\ broker[kafkaOf[c][q][o] + 1] = [run |-> q, off |-> o]
    BY <2>1 DEF PipelineInv, StoredWhereBrokerHasIt, At
  <2>3. kafkaOf[c][q][o] \in Nat
    BY <1>0, <2>1 DEF PipelineTypeOK
  <2>4. kafkaOf[c][q][o] \in 0 .. Len(broker) - 1
    BY <2>2, <2>3, <1>0
  <2>5. broker'[kafkaOf[c][q][o] + 1] = broker[kafkaOf[c][q][o] + 1]
    BY <2>4, <1>6
  <2>6. kafkaOf[c][q][o] < Len(broker')
    BY SMTT(30), <2>2, <2>3, <1>0, <1>1
  <2> QED
    BY <2>2, <2>5, <2>6
<1>8. ResumeLosesNothing'
  <2>1. SUFFICES ASSUME NEW c \in Consumers, NEW k \in 0 .. Len(broker') - 1,
                        k <= Later(polled[c], cursor[c])
                 PROVE  broker'[k + 1].off <= dbCkpt[c][broker'[k + 1].run]
    BY <1>2 DEF ResumeLosesNothing, At, Later
  <2>2. polled[c] < Len(broker) /\ cursor[c] < Len(broker)
    BY DEF PipelineInv, PositionsInBroker
  <2>3. polled[c] \in Int /\ cursor[c] \in Int
    BY <1>0 DEF PipelineTypeOK, None
  <2>4. k \in 0 .. Len(broker) - 1
    BY SMTT(30), <2>1, <2>2, <2>3, <1>0, <1>1 DEF Later
  <2>5. broker[k + 1].off <= dbCkpt[c][broker[k + 1].run]
    BY <2>1, <2>4 DEF PipelineInv, ResumeLosesNothing, At
  <2> QED
    BY <2>4, <2>5, <1>6
<1>9. PositionsInBroker'
  <2>1. \A c \in Consumers : polled[c] \in Int /\ cursor[c] \in Int
    BY <1>0 DEF PipelineTypeOK, None
  <2> QED
    BY SMTT(30), <2>1, <1>0, <1>1, <1>2 DEF PipelineInv, PositionsInBroker
<1>10. CheckpointCoversPrefix' /\ StoresInOrder' /\ GcOnlyAfterCommit'
  BY <1>2 DEF PipelineInv, CheckpointCoversPrefix, StoresInOrder, GcOnlyAfterCommit
<1> QED
  BY <1>1, <1>4, <1>5, <1>7, <1>8, <1>9, <1>10

-----------------------------------------------------------------------------
(* The steps of the pipeline.                                               *)

LEMMA InitInv ==
    ASSUME PipelineAssumption, PipelineInit
    PROVE  PipelineInv
<1>1. Offsets \subseteq Nat
  BY DEF Offsets
<1>2. broker \in Seq(Record) /\ Len(broker) = 0
  BY DEF PipelineInit
<1>3. PipelineTypeOK
  <2>1. appended \in [Runs -> 0 .. MaxRecords] /\ faults \in 0 .. MaxFaults
    BY DEF PipelineInit, PipelineAssumption
  <2>2. /\ relayCkpt \in [Runs -> Offsets \cup {None}]
        /\ cursor \in [Consumers -> Nat \cup {None}]
        /\ polled \in [Consumers -> Nat \cup {None}]
    BY DEF PipelineInit
  <2>3. /\ dbCkpt \in [Consumers -> [Runs -> Offsets \cup {None}]]
        /\ reqCkpt \in [Consumers -> [Runs -> Offsets \cup {None}]]
    BY DEF PipelineInit
  <2>4. kafkaOf \in [Consumers -> [Runs -> [Offsets -> Nat \cup {None}]]]
    BY DEF PipelineInit
  <2>5. health \in [Sidecars -> Snapshot]
    BY DEF PipelineInit, Snapshot
  <2>6. gc \in [Runs -> [last : Offsets \cup {None}, by : SUBSET Required]]
    BY DEF PipelineInit
  <2> QED
    BY <1>2, <2>1, <2>2, <2>3, <2>4, <2>5, <2>6 DEF PipelineTypeOK
<1>4. BrokerInWalOrder /\ ResumeLosesNothing
  <2>1. \A r \in Runs : relayCkpt[r] = None
    BY DEF PipelineInit
  <2>2. 1 .. Len(broker) = {} /\ 0 .. Len(broker) - 1 = {}
    BY <1>2
  <2> QED
    BY <2>1, <2>2 DEF BrokerInWalOrder, ResumeLosesNothing
<1>5. CheckpointCoversPrefix /\ StoresInOrder
  <2>1. \A c \in Consumers, r \in Runs : dbCkpt[c][r] = None /\ reqCkpt[c][r] = None
    BY DEF PipelineInit
  <2>2. \A o \in Offsets : ~(o <= None)
    BY <1>1 DEF None
  <2>3. None <= None
    BY DEF None
  <2>4. CheckpointCoversPrefix
    BY <2>1, <2>2 DEF CheckpointCoversPrefix
  <2>5. StoresInOrder
    BY <2>1, <2>3 DEF StoresInOrder
  <2> QED
    BY <2>4, <2>5
<1>6. StoredWhereBrokerHasIt
  BY DEF PipelineInit, StoredWhereBrokerHasIt
<1>7. GcOnlyAfterCommit
  BY DEF PipelineInit, GcOnlyAfterCommit
<1>8. PositionsInBroker
  BY <1>2 DEF PipelineInit, PositionsInBroker, None
<1> QED
  BY <1>3, <1>4, <1>5, <1>6, <1>7, <1>8 DEF PipelineInv

\* A snapshot replaces the sidecar's last one.
LEMMA HealthType ==
    ASSUME health \in [Sidecars -> Snapshot], NEW s \in Sidecars, NEW snap \in Snapshot
    PROVE  [health EXCEPT ![s] = snap] \in [Sidecars -> Snapshot]
OBVIOUS

\* A failing call is counted.
LEMMA FaultType ==
    ASSUME PipelineAssumption, faults \in 0 .. MaxFaults, NEW kind, Fault(kind)
    PROVE  faults' \in 0 .. MaxFaults
BY DEF Fault, PipelineAssumption

\* The snapshots of a sidecar.
LEMMA SnapshotType ==
    /\ FailedSnapshot \in Snapshot
    /\ \A off \in Offsets \cup {None} : RunningSnapshot(off) \in Snapshot
BY DEF Snapshot, FailedSnapshot, RunningSnapshot

\* A step that leaves the journal, the partition, the stores, the positions
\* and the decisions alone keeps the invariant.
LEMMA IdleStep ==
    ASSUME PipelineInv, UNCHANGED <<appended, broker, relayCkpt, stores, polled, gc>>,
           health' \in [Sidecars -> Snapshot], faults' \in 0 .. MaxFaults
    PROVE  PipelineInv'
<1>1. PipelineTypeOK'
  BY DEF PipelineInv, PipelineTypeOK, stores
<1>2. BrokerInWalOrder' /\ CheckpointCoversPrefix' /\ StoresInOrder' /\ PositionsInBroker'
  BY DEF PipelineInv, BrokerInWalOrder, CheckpointCoversPrefix, StoresInOrder,
         PositionsInBroker, stores
<1>3. StoredWhereBrokerHasIt' /\ ResumeLosesNothing' /\ GcOnlyAfterCommit'
  BY DEF PipelineInv, StoredWhereBrokerHasIt, ResumeLosesNothing, GcOnlyAfterCommit,
         stores, At, Later
<1> QED
  BY <1>1, <1>2, <1>3 DEF PipelineInv

LEMMA AppendStep ==
    ASSUME PipelineInv, PipelineAssumption, NEW r \in Runs, AppendEvent(r)
    PROVE  PipelineInv'
<1>1. /\ appended \in [Runs -> 0 .. MaxRecords] /\ broker \in Seq(Record)
      /\ appended[r] < MaxRecords
      /\ appended' = [appended EXCEPT ![r] = appended[r] + 1]
      /\ UNCHANGED <<broker, relayCkpt, kafkaOf, dbCkpt, reqCkpt, cursor, polled, health, gc, faults>>
  BY DEF PipelineInv, PipelineTypeOK, AppendEvent, stores
<1>2. /\ appended' \in [Runs -> 0 .. MaxRecords]
      /\ \A q \in Runs : appended[q] \in Int /\ appended'[q] \in Int /\ appended[q] <= appended'[q]
  BY <1>1 DEF PipelineAssumption
<1>3. PipelineTypeOK'
  BY <1>1, <1>2 DEF PipelineInv, PipelineTypeOK
<1>4. BrokerInWalOrder'
  <2>1. ASSUME NEW k \in 1 .. Len(broker)
        PROVE  broker[k].off < appended'[broker[k].run]
    <3>1. broker[k] \in Record
      BY <1>1, ElementOfSeq
    <3>2. broker[k].run \in Runs /\ broker[k].off \in Int
      BY <3>1 DEF Record, Offsets
    <3>3. broker[k].off < appended[broker[k].run]
      BY DEF PipelineInv, BrokerInWalOrder
    <3> QED
      BY <1>2, <3>2, <3>3
  <2> QED
    BY <1>1, <2>1 DEF PipelineInv, BrokerInWalOrder
<1>5. CheckpointCoversPrefix' /\ StoresInOrder' /\ PositionsInBroker'
  BY <1>1 DEF PipelineInv, CheckpointCoversPrefix, StoresInOrder, PositionsInBroker
<1>6. StoredWhereBrokerHasIt' /\ ResumeLosesNothing' /\ GcOnlyAfterCommit'
  BY <1>1 DEF PipelineInv, StoredWhereBrokerHasIt, ResumeLosesNothing, GcOnlyAfterCommit, At, Later
<1> QED
  BY <1>3, <1>4, <1>5, <1>6 DEF PipelineInv

LEMMA RelayStep ==
    ASSUME PipelineInv, PipelineAssumption, NEW r \in Runs, Relay(r)
    PROVE  PipelineInv'
<1>0. PipelineTypeOK /\ BrokerInWalOrder /\ health \in [Sidecars -> Snapshot]
      /\ faults \in 0 .. MaxFaults /\ r \in Sidecars
  BY DEF PipelineInv, PipelineTypeOK, Sidecars
<1>1. CASE RelayIdle(r)
  <2>1. health' \in [Sidecars -> Snapshot]
    BY <1>0, <1>1, HealthType, SnapshotType DEF RelayIdle
  <2>2. /\ UNCHANGED <<appended, broker, relayCkpt, stores, polled, gc>>
        /\ faults' \in 0 .. MaxFaults
    BY <1>0, <1>1 DEF RelayIdle
  <2> QED
    BY <2>1, <2>2, IdleStep
<1>2. ASSUME NEW max \in 1 .. MaxBatch, BatchSize(r, max) > 0
      PROVE  BatchLast(r, max) \in Offsets
  BY <1>0, <1>2, PublishedAt
<1>3. ASSUME NEW max \in 1 .. MaxBatch, RelayRejected(r, max)
      PROVE  PipelineInv'
  <2>1. BatchSize(r, max) > 0
    BY <1>3 DEF RelayRejected
  <2>2. health' \in [Sidecars -> Snapshot]
    BY <1>0, <1>2, <1>3, <2>1, HealthType, SnapshotType DEF RelayRejected
  <2>3. faults' \in 0 .. MaxFaults
    BY <1>0, <1>3, FaultType DEF RelayRejected
  <2>4. UNCHANGED <<appended, broker, relayCkpt, stores, polled, gc>>
    BY <1>3 DEF RelayRejected
  <2> QED
    BY <2>2, <2>3, <2>4, IdleStep
<1>4. ASSUME NEW max \in 1 .. MaxBatch,
             RelayOnce(r, max) \/ RelaySaveFails(r, max) \/ RelayHealthFails(r, max)
      PROVE  PipelineInv'
  <2>1. /\ BatchSize(r, max) > 0
        /\ broker' = Published(r, max)
        /\ \/ relayCkpt' = relayCkpt
           \/ relayCkpt' = [relayCkpt EXCEPT ![r] = BatchLast(r, max)]
        /\ UNCHANGED <<appended, stores, polled, gc>>
    BY <1>4 DEF RelayOnce, RelaySaveFails, RelayHealthFails
  <2>2. /\ broker' \in Seq(Record)
        /\ relayCkpt' \in [Runs -> Offsets \cup {None}]
        /\ BrokerInWalOrder' /\ CheckpointCoversPrefix' /\ StoredWhereBrokerHasIt'
        /\ ResumeLosesNothing' /\ StoresInOrder' /\ GcOnlyAfterCommit' /\ PositionsInBroker'
    BY <2>1, PublishKeepsOrder
  <2>3. health' \in [Sidecars -> Snapshot]
    BY <1>0, <1>2, <1>4, <2>1, HealthType, SnapshotType
       DEF RelayOnce, RelaySaveFails, RelayHealthFails
  <2>4. faults' \in 0 .. MaxFaults
    BY <1>0, <1>4, FaultType DEF RelayOnce, RelaySaveFails, RelayHealthFails
  <2>5. PipelineTypeOK'
    BY <1>0, <2>1, <2>2, <2>3, <2>4 DEF PipelineTypeOK, stores
  <2> QED
    BY <2>2, <2>5 DEF PipelineInv
<1> QED
  BY <1>1, <1>3, <1>4 DEF Relay

LEMMA DuplicatesStep ==
    ASSUME PipelineInv, PipelineAssumption,
           NEW c \in Consumers, NEW first \in 0 .. Len(broker) - 1,
           NEW n \in 1 .. MaxBatch, CommitDuplicates(c, first, n)
    PROVE  PipelineInv'
<1> DEFINE r == At(first).run
<1>0. /\ PipelineTypeOK /\ Delivers(c, first, n) /\ ValidBatch(first, n)
      /\ NewOffsets(c, first, n) = {} /\ Len(broker) \in Nat
  BY DEF PipelineInv, PipelineTypeOK, CommitDuplicates, Accepts
<1>1. /\ r \in Runs /\ At(first).off \in Offsets
      /\ n \in Nat /\ n > 0 /\ first + n - 1 \in 0 .. Len(broker) - 1
      /\ \A k \in first .. first + n - 1 :
            At(k) = [run |-> r, off |-> At(first).off + (k - first)]
  BY <1>0, BatchFacts
<1>2. /\ polled' = [polled EXCEPT ![c] = Later(polled[c], first + n - 1)]
      /\ health' = [health EXCEPT ![c] = RunningSnapshot(dbCkpt[c][r])]
      /\ UNCHANGED <<appended, broker, relayCkpt, kafkaOf, dbCkpt, reqCkpt, cursor, gc, faults>>
  BY DEF CommitDuplicates, stores
<1>3. polled \in [Consumers -> Nat \cup {None}]
  BY <1>0 DEF PipelineTypeOK
<1>4. /\ \A d \in Consumers : polled[d] \in Int /\ cursor[d] \in Int
      /\ dbCkpt[c][r] \in Offsets \cup {None} /\ dbCkpt[c][r] \in Int /\ At(first).off \in Int
  <2>1. \A d \in Consumers : polled[d] \in Int /\ cursor[d] \in Int
    BY <1>0 DEF PipelineTypeOK, None
  <2>2. dbCkpt[c][r] \in Offsets \cup {None} /\ At(first).off \in Offsets
    BY <1>0, <1>1 DEF PipelineTypeOK
  <2> QED
    BY <2>1, <2>2 DEF None, Offsets
<1> HIDE DEF r
<1>5. \A d \in Consumers : polled'[d] = IF d = c THEN Later(polled[c], first + n - 1) ELSE polled[d]
  BY <1>2, <1>3
<1>6. polled' \in [Consumers -> Nat \cup {None}]
  BY <1>1, <1>2, <1>3 DEF Later
<1>7. health' \in [Sidecars -> Snapshot]
  <2>1. health \in [Sidecars -> Snapshot] /\ c \in Sidecars
    BY <1>0 DEF PipelineTypeOK, Sidecars
  <2> QED
    BY <1>2, <1>4, <2>1, HealthType, SnapshotType
<1>8. PipelineTypeOK'
  BY <1>0, <1>2, <1>6, <1>7 DEF PipelineTypeOK
<1>9. ResumeLosesNothing'
  <2>1. SUFFICES ASSUME NEW d \in Consumers, NEW k \in 0 .. Len(broker) - 1,
                        k <= Later(polled'[d], cursor[d])
                 PROVE  broker[k + 1].off <= dbCkpt[d][broker[k + 1].run]
    BY <1>2 DEF ResumeLosesNothing, At, Later
  <2>2. CASE k <= Later(polled[d], cursor[d])
    BY <2>2 DEF PipelineInv, ResumeLosesNothing, At
  <2>3. CASE ~(k <= Later(polled[d], cursor[d]))
    <3>1. d = c
      BY <2>1, <2>3, <1>5
    <3>2. k \in Int /\ polled[c] \in Int /\ cursor[c] \in Int /\ first \in Int /\ n \in Int
      BY <1>1, <1>4
    <3>3. k > polled[c] /\ k > cursor[c]
      BY <2>3, <3>1, <3>2 DEF Later
    <3>4. k <= first + n - 1
      BY <2>1, <1>5, <3>1, <3>2, <3>3 DEF Later
    <3>5. first <= k
      BY SMTT(30), <1>0, <3>2, <3>3 DEF Delivers, Later
    <3>6. k \in first .. first + n - 1
      BY <3>2, <3>4, <3>5
    <3>7. At(k) = [run |-> r, off |-> At(first).off + (k - first)]
      BY <3>6, <1>1
    <3>8. At(k).run = r /\ At(k).off = At(first).off + (k - first)
      BY <3>7
    <3>9. At(k).off \in At(first).off .. At(first).off + n - 1
      BY SMTT(30), <3>2, <3>6, <3>8, <1>4
    <3>10. ~(At(k).off > dbCkpt[c][r])
      BY <3>9, <1>0 DEF NewOffsets, r
    <3>11. At(k).off <= dbCkpt[c][r]
      BY <3>2, <3>8, <3>10, <1>4
    <3> QED
      BY <3>1, <3>8, <3>11 DEF At
  <2> QED
    BY <2>2, <2>3
<1>10. PositionsInBroker'
  <2>1. Later(polled[c], first + n - 1) < Len(broker)
    BY <1>0, <1>1 DEF PipelineInv, PositionsInBroker, Later
  <2> QED
    BY <1>2, <1>5, <2>1 DEF PipelineInv, PositionsInBroker
<1>11. BrokerInWalOrder' /\ CheckpointCoversPrefix' /\ StoresInOrder' /\ GcOnlyAfterCommit'
  BY <1>2 DEF PipelineInv, BrokerInWalOrder, CheckpointCoversPrefix, StoresInOrder, GcOnlyAfterCommit
<1>12. StoredWhereBrokerHasIt'
  BY <1>2 DEF PipelineInv, StoredWhereBrokerHasIt, At
<1> QED
  BY <1>8, <1>9, <1>10, <1>11, <1>12 DEF PipelineInv

LEMMA DbWriterStep ==
    ASSUME PipelineInv, PipelineAssumption, NEW c \in Consumers, DbWriter(c)
    PROVE  PipelineInv'
<1>0. PipelineTypeOK /\ health \in [Sidecars -> Snapshot] /\ faults \in 0 .. MaxFaults /\ c \in Sidecars
  BY DEF PipelineInv, PipelineTypeOK, Sidecars
<1>1. PICK first \in 0 .. Len(broker) - 1, n \in 1 .. MaxBatch :
        \/ CommitRefused(c, first, n)
        \/ CommitDuplicates(c, first, n)
        \/ CommitOnce(c, first, n)
        \/ \E done \in 0 .. 4 : CommitFails(c, first, n, done)
  BY DEF DbWriter
<1>2. CASE CommitRefused(c, first, n)
  <2>1. health' \in [Sidecars -> Snapshot]
    BY <1>0, <1>2, HealthType, SnapshotType DEF CommitRefused
  <2>2. /\ UNCHANGED <<appended, broker, relayCkpt, stores, polled, gc>>
        /\ faults' \in 0 .. MaxFaults
    BY <1>0, <1>2 DEF CommitRefused
  <2> QED
    BY <2>1, <2>2, IdleStep
<1>3. CASE CommitDuplicates(c, first, n)
  BY <1>3, DuplicatesStep
<1>4. ASSUME NEW done \in 0 .. 4, Commits(c, first, n), CommitWrites(c, first, n, done),
             UNCHANGED <<appended, broker, relayCkpt, gc>>,
             \/ polled' = polled
             \/ done = 4 /\ polled' = [polled EXCEPT ![c] = Later(@, first + n - 1)],
             health' \in [Sidecars -> Snapshot], faults' \in 0 .. MaxFaults
      PROVE  PipelineInv'
  <2>1. /\ polled' \in [Consumers -> Nat \cup {None}]
        /\ BrokerInWalOrder' /\ CheckpointCoversPrefix' /\ StoredWhereBrokerHasIt'
        /\ ResumeLosesNothing' /\ StoresInOrder' /\ GcOnlyAfterCommit' /\ PositionsInBroker'
    BY <1>4, CommitKeepsStores
  <2>2. /\ kafkaOf' \in [Consumers -> [Runs -> [Offsets -> Nat \cup {None}]]]
        /\ dbCkpt' \in [Consumers -> [Runs -> Offsets \cup {None}]]
        /\ reqCkpt' \in [Consumers -> [Runs -> Offsets \cup {None}]]
        /\ cursor' \in [Consumers -> Nat \cup {None}]
    BY <1>0, <1>4, WritesAt
  <2>3. PipelineTypeOK'
    BY <1>0, <1>4, <2>1, <2>2 DEF PipelineTypeOK
  <2> QED
    BY <2>1, <2>3 DEF PipelineInv
<1>5. ASSUME Commits(c, first, n)
      PROVE  LastOffset(first, n) \in Offsets
  BY <1>0, <1>5, BatchFacts DEF Commits, Accepts
<1>6. CASE CommitOnce(c, first, n)
  <2>1. Commits(c, first, n) /\ CommitWrites(c, first, n, 4) /\ 4 \in 0 .. 4
    BY <1>6 DEF CommitOnce
  <2>2. health' \in [Sidecars -> Snapshot]
    BY <1>0, <1>5, <1>6, <2>1, HealthType, SnapshotType DEF CommitOnce
  <2>3. /\ UNCHANGED <<appended, broker, relayCkpt, gc>> /\ faults' = faults
        /\ polled' = [polled EXCEPT ![c] = Later(@, first + n - 1)]
    BY <1>6 DEF CommitOnce
  <2> QED
    BY <1>0, <1>4, <2>1, <2>2, <2>3
<1>7. ASSUME NEW done \in 0 .. 4, CommitFails(c, first, n, done)
      PROVE  PipelineInv'
  <2>1. /\ Commits(c, first, n) /\ CommitWrites(c, first, n, done)
        /\ UNCHANGED <<appended, broker, relayCkpt, gc>> /\ polled' = polled
    BY <1>7 DEF CommitFails
  <2>2. health' \in [Sidecars -> Snapshot]
    BY <1>0, <1>7, HealthType, SnapshotType DEF CommitFails
  <2>3. faults' \in 0 .. MaxFaults
    <3>1. faults' = faults \/ Fault(FailingCall(done))
      BY <1>7 DEF CommitFails
    <3> QED
      BY <1>0, <3>1, FaultType
  <2> QED
    BY <1>4, <2>1, <2>2, <2>3
<1> QED
  BY <1>1, <1>2, <1>3, <1>6, <1>7

LEMMA GcStep ==
    ASSUME PipelineInv, PipelineAssumption,
           NEW r \in Runs, NEW last \in Offsets, DecideWalGc(r, last)
    PROVE  PipelineInv'
<1>1. /\ AllRequiredReached(r, last)
      /\ gc' = [gc EXCEPT ![r] = [last |-> last, by |-> RequiredCheckpoints(r)]]
      /\ UNCHANGED <<appended, broker, relayCkpt, kafkaOf, dbCkpt, reqCkpt, cursor, polled, health, faults>>
  BY DEF DecideWalGc, stores
<1>2. gc \in [Runs -> [last : Offsets \cup {None}, by : SUBSET Required]]
  BY DEF PipelineInv, PipelineTypeOK
<1>3. [last |-> last, by |-> RequiredCheckpoints(r)]
        \in [last : Offsets \cup {None}, by : SUBSET Required]
  BY DEF RequiredCheckpoints
<1>4. gc' \in [Runs -> [last : Offsets \cup {None}, by : SUBSET Required]]
  BY <1>1, <1>2, <1>3
<1>5. PipelineTypeOK'
  BY <1>1, <1>4 DEF PipelineInv, PipelineTypeOK
<1>6. GcOnlyAfterCommit'
  <2>1. SUFFICES ASSUME NEW q \in Runs, gc'[q].last # None
                 PROVE  /\ gc'[q].by # {}
                        /\ \A c \in gc'[q].by : \A o \in Offsets :
                             o <= gc'[q].last => kafkaOf[c][q][o] # None
    BY <1>1 DEF GcOnlyAfterCommit
  <2>2. CASE q # r
    <3>1. gc'[q] = gc[q]
      BY <1>1, <1>2, <2>2
    <3> QED
      BY <2>1, <3>1 DEF PipelineInv, GcOnlyAfterCommit
  <2>3. CASE q = r
    <3>1. gc'[q].last = last /\ gc'[q].by = RequiredCheckpoints(r)
      BY <1>1, <1>2, <2>3
    <3>2. ASSUME NEW c \in RequiredCheckpoints(r), NEW o \in Offsets, o <= last
          PROVE  kafkaOf[c][r][o] # None
      <4>1. c \in Consumers /\ reqCkpt[c][r] >= last
        BY <1>1 DEF AllRequiredReached, RequiredCheckpoints, PipelineAssumption
      <4>2. reqCkpt[c][r] <= dbCkpt[c][r]
        BY <4>1 DEF PipelineInv, StoresInOrder
      <4>3. reqCkpt[c][r] \in Int /\ dbCkpt[c][r] \in Int /\ o \in Int /\ last \in Int
        BY <4>1 DEF PipelineInv, PipelineTypeOK, Offsets, None
      <4>4. o <= dbCkpt[c][r]
        BY <3>2, <4>1, <4>2, <4>3
      <4> QED
        BY <4>1, <4>4 DEF PipelineInv, CheckpointCoversPrefix
    <3>3. RequiredCheckpoints(r) # {}
      BY <1>1 DEF AllRequiredReached
    <3> QED
      BY <2>3, <3>1, <3>2, <3>3
  <2> QED
    BY <2>2, <2>3
<1>7. BrokerInWalOrder' /\ CheckpointCoversPrefix' /\ StoresInOrder' /\ PositionsInBroker'
  BY <1>1 DEF PipelineInv, BrokerInWalOrder, CheckpointCoversPrefix, StoresInOrder, PositionsInBroker
<1>8. StoredWhereBrokerHasIt' /\ ResumeLosesNothing'
  BY <1>1 DEF PipelineInv, StoredWhereBrokerHasIt, ResumeLosesNothing, At, Later
<1> QED
  BY <1>5, <1>6, <1>7, <1>8 DEF PipelineInv

\* The invariant is inductive.
LEMMA NextInv ==
    ASSUME PipelineInv, PipelineAssumption, [PipelineNext]_pipelineVars
    PROVE  PipelineInv'
<1>1. CASE UNCHANGED pipelineVars
  <2>1. health \in [Sidecars -> Snapshot] /\ faults \in 0 .. MaxFaults
    BY DEF PipelineInv, PipelineTypeOK
  <2>2. health' = health /\ faults' = faults
        /\ UNCHANGED <<appended, broker, relayCkpt, stores, polled, gc>>
    BY <1>1 DEF pipelineVars, stores
  <2> QED
    BY <2>1, <2>2, IdleStep
<1>2. CASE PipelineNext
  BY <1>2, AppendStep, RelayStep, DbWriterStep, GcStep DEF PipelineNext
<1> QED
  BY <1>1, <1>2

-----------------------------------------------------------------------------
(* Monotonic progress.                                                      *)

\* A batch of a DB writer, cut off after any write, takes nothing back.
LEMMA CommitKeepsProgress ==
    ASSUME PipelineInv, PipelineAssumption,
           NEW c \in Consumers, NEW first \in 0 .. Len(broker) - 1,
           NEW n \in 1 .. MaxBatch, NEW done \in 0 .. 4,
           Commits(c, first, n), CommitWrites(c, first, n, done), relayCkpt' = relayCkpt,
           \A d \in 1 .. done - 1 : ~Regresses(c, first, n, d)
    PROVE  KeepsProgress
<1> DEFINE r == At(first).run
           last == LastOffset(first, n)
<1>0. PipelineTypeOK /\ Delivers(c, first, n) /\ ValidBatch(first, n)
  BY DEF PipelineInv, Commits, Accepts
<1>1. r \in Runs /\ last \in Offsets /\ At(first).off \in Offsets /\ first + n - 1 \in Int
  BY <1>0, BatchFacts
<1>2. dbCkpt[c][r] < last
  BY <1>0, CommitAdvances
<1>3. /\ \A d \in Consumers, q \in Runs, o \in Offsets :
           kafkaOf'[d][q][o] =
               IF done >= 1 /\ d = c /\ q = r /\ o \in NewOffsets(c, first, n)
               THEN first + (o - At(first).off) ELSE kafkaOf[d][q][o]
      /\ \A d \in Consumers, q \in Runs :
           dbCkpt'[d][q] = IF done >= 2 /\ d = c /\ q = r THEN last ELSE dbCkpt[d][q]
      /\ \A d \in Consumers, q \in Runs :
           reqCkpt'[d][q] = IF done >= 3 /\ d = c /\ q = r THEN last ELSE reqCkpt[d][q]
      /\ \A d \in Consumers :
           cursor'[d] = IF done >= 4 /\ d = c THEN first + n - 1 ELSE cursor[d]
  BY SMTT(30), <1>0, WritesAt
<1>4. /\ \A d \in Consumers, q \in Runs : dbCkpt[d][q] \in Int /\ reqCkpt[d][q] \in Int
      /\ \A d \in Consumers : cursor[d] \in Int
      /\ \A q \in Runs : relayCkpt[q] \in Int
      /\ last \in Int
  <2>1. /\ dbCkpt \in [Consumers -> [Runs -> Offsets \cup {None}]]
        /\ reqCkpt \in [Consumers -> [Runs -> Offsets \cup {None}]]
        /\ cursor \in [Consumers -> Nat \cup {None}]
        /\ relayCkpt \in [Runs -> Offsets \cup {None}]
    BY <1>0 DEF PipelineTypeOK
  <2>2. Offsets \cup {None} \subseteq Int /\ Nat \cup {None} \subseteq Int
    BY DEF Offsets, None
  <2> QED
    BY <1>1, <2>1, <2>2
<1> HIDE DEF r, last
<1>5. ASSUME NEW d \in Consumers PROVE cursor'[d] >= cursor[d]
  <2>1. CASE done >= 4 /\ d = c
    <3>1. ~Regresses(c, first, n, 3)
      <4>1. 3 \in 1 .. done - 1
        BY <2>1
      <4> QED
        BY <4>1
    <3>2. ~(first + n - 1 < cursor[c])
      BY <3>1 DEF Regresses
    <3> QED
      BY <2>1, <3>2, <1>1, <1>3, <1>4
  <2> QED
    BY <2>1, <1>3, <1>4
<1>6. ASSUME NEW d \in Consumers, NEW q \in Runs
      PROVE  dbCkpt'[d][q] >= dbCkpt[d][q] /\ reqCkpt'[d][q] >= reqCkpt[d][q]
  <2>1. reqCkpt[d][q] <= dbCkpt[d][q]
    BY DEF PipelineInv, StoresInOrder
  <2>2. /\ dbCkpt'[d][q] = IF done >= 2 /\ d = c /\ q = r THEN last ELSE dbCkpt[d][q]
        /\ reqCkpt'[d][q] = IF done >= 3 /\ d = c /\ q = r THEN last ELSE reqCkpt[d][q]
        /\ dbCkpt[d][q] \in Int /\ reqCkpt[d][q] \in Int
    BY <1>3, <1>4
  <2>3. CASE d = c /\ q = r
    BY <2>1, <2>2, <2>3, <1>2, <1>4
  <2>4. CASE ~(d = c /\ q = r)
    BY <2>2, <2>4
  <2> QED
    BY <2>3, <2>4
<1>7. ASSUME NEW d \in Consumers, NEW q \in Runs, NEW o \in Offsets, kafkaOf[d][q][o] # None
      PROVE  kafkaOf'[d][q][o] = kafkaOf[d][q][o]
  <2>1. CASE done >= 1 /\ d = c /\ q = r /\ o \in NewOffsets(c, first, n)
    <3> DEFINE k == first + (o - At(first).off)
    <3>1. k \in first .. first + n - 1 /\ At(k) = [run |-> r, off |-> o]
      BY <1>0, <2>1, NewOffsetsInBatch DEF r
    <3>2. At(k).off = o
      BY <3>1
    <3>3. \A j \in first .. first + n - 1 :
            At(j).off \in NewOffsets(c, first, n) => kafkaOf[c][r][At(j).off] \in {None, j}
      BY DEF Commits, Accepts, NoConflict, r
    <3>4. kafkaOf[c][r][o] \in {None, k}
      BY <2>1, <3>1, <3>2, <3>3
    <3>5. kafkaOf'[d][q][o] = k
      BY <2>1, <1>3
    <3> QED
      BY <1>7, <2>1, <3>4, <3>5
  <2>2. CASE ~(done >= 1 /\ d = c /\ q = r /\ o \in NewOffsets(c, first, n))
    BY <2>2, <1>3
  <2> QED
    BY <2>1, <2>2
<1>8. \A q \in Runs : relayCkpt'[q] >= relayCkpt[q]
  BY <1>4
<1> QED
  BY <1>5, <1>6, <1>7, <1>8 DEF KeepsProgress

\* A step that leaves the stores of the consumers alone and lowers no relay
\* checkpoint takes nothing back.
LEMMA StoresKept ==
    ASSUME PipelineTypeOK, UNCHANGED stores, \A r \in Runs : relayCkpt'[r] >= relayCkpt[r]
    PROVE  KeepsProgress
<1>1. /\ \A c \in Consumers, r \in Runs : dbCkpt[c][r] \in Int /\ reqCkpt[c][r] \in Int
      /\ \A c \in Consumers : cursor[c] \in Int
  BY DEF PipelineTypeOK, Offsets, None
<1>2. kafkaOf' = kafkaOf /\ dbCkpt' = dbCkpt /\ reqCkpt' = reqCkpt /\ cursor' = cursor
  BY DEF stores
<1> QED
  BY <1>1, <1>2 DEF KeepsProgress

\* No step takes progress back.
LEMMA NextKeepsProgress ==
    ASSUME PipelineInv, PipelineAssumption, PipelineNext
    PROVE  KeepsProgress
<1>0. PipelineTypeOK /\ BrokerInWalOrder /\ relayCkpt \in [Runs -> Offsets \cup {None}]
  BY DEF PipelineInv, PipelineTypeOK
<1>1. \A r \in Runs : relayCkpt[r] \in Int
  BY <1>0 DEF Offsets, None
<1>2. ASSUME UNCHANGED <<stores, relayCkpt>> PROVE KeepsProgress
  BY <1>0, <1>1, <1>2, StoresKept
<1>3. ASSUME NEW r \in Runs, AppendEvent(r) PROVE KeepsProgress
  BY <1>2, <1>3 DEF AppendEvent
<1>4. ASSUME NEW r \in Runs, Relay(r) PROVE KeepsProgress
  <2>1. CASE RelayIdle(r)
    BY <1>2, <2>1 DEF RelayIdle
  <2>2. ASSUME NEW max \in 1 .. MaxBatch, RelayRejected(r, max) \/ RelaySaveFails(r, max)
        PROVE  KeepsProgress
    BY <1>2, <2>2 DEF RelayRejected, RelaySaveFails
  <2>3. ASSUME NEW max \in 1 .. MaxBatch, RelayOnce(r, max) \/ RelayHealthFails(r, max)
        PROVE  KeepsProgress
    <3>1. /\ UNCHANGED stores /\ BatchSize(r, max) > 0
          /\ relayCkpt' = [relayCkpt EXCEPT ![r] = BatchLast(r, max)]
      BY <2>3 DEF RelayOnce, RelayHealthFails
    <3>2. /\ BatchSize(r, max) \in Nat
          /\ BatchLast(r, max) = relayCkpt[r] + BatchSize(r, max)
      BY <1>0, <3>1, PublishedAt
    <3>3. \A q \in Runs : relayCkpt'[q] >= relayCkpt[q]
      BY <1>0, <1>1, <3>1, <3>2
    <3> QED
      BY <1>0, <3>1, <3>3, StoresKept
  <2> QED
    BY <1>4, <2>1, <2>2, <2>3 DEF Relay
<1>5. ASSUME NEW c \in Consumers, DbWriter(c) PROVE KeepsProgress
  <2>1. PICK first \in 0 .. Len(broker) - 1, n \in 1 .. MaxBatch :
          \/ CommitRefused(c, first, n)
          \/ CommitDuplicates(c, first, n)
          \/ CommitOnce(c, first, n)
          \/ \E done \in 0 .. 4 : CommitFails(c, first, n, done)
    BY <1>5 DEF DbWriter
  <2>2. CASE CommitRefused(c, first, n) \/ CommitDuplicates(c, first, n)
    BY <1>2, <2>2 DEF CommitRefused, CommitDuplicates
  <2>3. CASE CommitOnce(c, first, n)
    <3>1. /\ Commits(c, first, n) /\ CommitWrites(c, first, n, 4) /\ relayCkpt' = relayCkpt
          /\ \A d \in 1 .. 3 : ~Regresses(c, first, n, d)
      BY <2>3 DEF CommitOnce
    <3>2. 4 \in 0 .. 4 /\ 4 - 1 = 3
      OBVIOUS
    <3> QED
      BY <3>1, <3>2, CommitKeepsProgress
  <2>4. ASSUME NEW done \in 0 .. 4, CommitFails(c, first, n, done) PROVE KeepsProgress
    <3>1. /\ Commits(c, first, n) /\ CommitWrites(c, first, n, done) /\ relayCkpt' = relayCkpt
          /\ \A d \in 1 .. done - 1 : ~Regresses(c, first, n, d)
      BY <2>4 DEF CommitFails
    <3> QED
      BY <3>1, CommitKeepsProgress
  <2> QED
    BY <2>1, <2>2, <2>3, <2>4
<1>6. ASSUME NEW r \in Runs, NEW last \in Offsets, DecideWalGc(r, last) PROVE KeepsProgress
  BY <1>2, <1>6 DEF DecideWalGc
<1> QED
  BY <1>3, <1>4, <1>5, <1>6 DEF PipelineNext

-----------------------------------------------------------------------------
(* The theorems.                                                            *)

\* The invariant holds in every behaviour of the pipeline.
THEOREM PipelineInductive == PipelineSpec => []PipelineInv
<1>1. PipelineInit => PipelineInv
  BY PipelineAssumption, InitInv
<1>2. PipelineInv /\ [PipelineNext]_pipelineVars => PipelineInv'
  BY PipelineAssumption, NextInv
<1> QED
  BY <1>1, <1>2, PTL DEF PipelineSpec

\* Every store holds values of its type.
THEOREM TypeCorrect == PipelineSpec => []PipelineTypeOK
<1>1. PipelineInv => PipelineTypeOK
  BY DEF PipelineInv
<1> QED
  BY <1>1, PipelineInductive, PTL

\* Every run appears in the partition in WAL order and without holes, after
\* any rejected, lost or repeated publish of the relay.
THEOREM PartitionInWalOrder == PipelineSpec => []BrokerInWalOrder
<1>1. PipelineInv => BrokerInWalOrder
  BY DEF PipelineInv
<1> QED
  BY <1>1, PipelineInductive, PTL

\* A DB writer checkpoint stands for every record of the run up to it.
THEOREM CheckpointsAreDurable == PipelineSpec => []CheckpointCoversPrefix
<1>1. PipelineInv => CheckpointCoversPrefix
  BY DEF PipelineInv
<1> QED
  BY <1>1, PipelineInductive, PTL

\* A record is stored under a kafka offset at which the broker holds it.
THEOREM StoredRecordsAreGenuine == PipelineSpec => []StoredWhereBrokerHasIt
<1>1. PipelineInv => StoredWhereBrokerHasIt
  BY DEF PipelineInv
<1> QED
  BY <1>1, PipelineInductive, PTL

\* A consumer that resumes from its cursor or its position skips no record.
THEOREM ResumeIsSafe == PipelineSpec => []ResumeLosesNothing
<1>1. PipelineInv => ResumeLosesNothing
  BY DEF PipelineInv
<1> QED
  BY <1>1, PipelineInductive, PTL

\* Garbage collection is authorised only by consumers that have committed the
\* whole run up to the end of the segment.
THEOREM GcIsSafe == PipelineSpec => []GcOnlyAfterCommit
<1>1. PipelineInv => GcOnlyAfterCommit
  BY DEF PipelineInv
<1> QED
  BY <1>1, PipelineInductive, PTL

\* No checkpoint or cursor is ever lowered and no stored record moves, though
\* the writes of a batch may stop anywhere.
THEOREM ProgressTheorem == PipelineSpec => ProgressIsMonotonic
<1>1. PipelineInv /\ [PipelineNext]_pipelineVars => [KeepsProgress]_pipelineVars
  BY PipelineAssumption, NextKeepsProgress
<1> QED
  BY <1>1, PipelineInductive, PTL DEF PipelineSpec, ProgressIsMonotonic

=============================================================================
