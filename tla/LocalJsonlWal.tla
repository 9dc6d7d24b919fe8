---------------------------- MODULE LocalJsonlWal ----------------------------
(***************************************************************************)
(* The local segmented JSONL write-ahead log                               *)
(* (infrastructure/wal/local_jsonl.py).                                    *)
(*                                                                         *)
(* The disk holds one JSONL file and one metadata file per segment.  Every *)
(* public operation is cut at its disk effects, in the order the code      *)
(* performs them, so that a crash can fall between any two of them; pc     *)
(* says which effect comes next.  Segment files are numbered from 1        *)
(* without gaps, hence the two sequences files and metas.                  *)
(*                                                                         *)
(* A JSONL file is a sequence of writes.  A write is a record together     *)
(* with how much of its line reached the file: the whole "line", the line  *)
(* "cut" just before its newline, or a "partial" prefix of the JSON.       *)
(* payload_bytes is left out: it changes with event_count and nothing else.*)
(***************************************************************************)
EXTENDS Integers, Sequences, FiniteSets

CONSTANTS
  Events,        \* event envelopes
  SplitEvents,   \* those whose JSON holds a character str.splitlines() breaks
                 \* at (U+0085, U+2028, U+2029 are not escaped by the encoder)
  MaxEvents,     \* config.segment_max_events
  Faults,        \* the environment faults a run admits
  SealEmpty,     \* may a caller seal a segment that holds no record?
  MaxWrites,     \* bound: lines written in a behaviour
  MaxSegments    \* bound: segments created in a behaviour

FaultKinds ==
  {"crash",         \* the process dies between two disk effects
   "torn_line",     \* ... while a line is being written, leaving a prefix
   "torn_newline",  \* ... while a line is being written, losing the newline
   "append_io",     \* flush or fsync of an appended line raises
   "seal_io",       \* flush or fsync of a segment being sealed raises
   "meta_io",       \* _save_metadata raises; the old metadata stays
   "file_io"}       \* opening the next segment's JSONL file raises

ASSUME WalAssumption ==
  /\ SplitEvents \subseteq Events
  /\ MaxEvents \in Nat \ {0}
  /\ Faults \subseteq FaultKinds
  /\ SealEmpty \in BOOLEAN
  /\ MaxWrites \in Nat
  /\ MaxSegments \in Nat

VARIABLES
  files,      \* disk: files[i] is segment i's JSONL file, a sequence of writes
  metas,      \* disk: metas[i] is segment i's metadata file
  status,     \* "down", "up", "closed" (_closed) or "refused" (open raised)
  pc,         \* the next disk effect of the operation in progress
  handle,     \* is _active_file open?
  cur,        \* _current_segment_index
  nextOff,    \* _next_offset
  first,      \* _active_first_offset; 0 when the active segment is empty
  count,      \* _active_event_count
  pending,    \* the record append will return: {} or a singleton
  acked,      \* history: the records append returned as APPENDED
  written     \* history: the number of lines written, for MaxWrites

disk   == <<files, metas>>
memory == <<handle, cur, nextOff, first, count>>
vars   == <<files, metas, status, pc, handle, cur, nextOff, first, count,
            pending, acked, written>>

Records == [off : Nat, ev : Events]
Forms   == {"line", "cut", "partial"}
Writes  == [off : Nat, ev : Events, form : Forms]
Metas   == [status : {"OPEN", "SEALED"}, first : Nat, count : Nat]

TypeOK ==
  /\ files \in Seq(Seq(Writes))
  /\ metas \in Seq(Metas)
  /\ status \in {"down", "up", "closed", "refused"}
  /\ pc \in {"idle", "boot_meta", "append_meta", "seal", "new_file", "new_meta"}
  /\ handle \in BOOLEAN
  /\ cur \in Nat
  /\ nextOff \in Nat
  /\ first \in Nat
  /\ count \in Nat
  /\ pending \in SUBSET Records
  /\ acked \in SUBSET Records
  /\ written \in Nat

-----------------------------------------------------------------------------
(* Reading segments: _read_segment_records and the startup checks.         *)

\* Every line parses, and offsets are contiguous within the file.  A write
\* that lacks its newline is joined to the one after it, so it parses only as
\* the last line of the file.
Parses(f) ==
  /\ \A j \in DOMAIN f :
       /\ f[j].form # "partial"
       /\ f[j].ev \notin SplitEvents
       /\ j < Len(f) => f[j].form = "line"
  /\ \A j \in 2..Len(f) : f[j].off = f[j - 1].off + 1

\* The file parses and agrees with the metadata's count and offset range.
Matches(f, m) ==
  /\ Parses(f)
  /\ Len(f) = m.count
  /\ f # <<>> => f[1].off = m.first

\* Mutant: an empty segment is recovered with first offset -1.
RecoveredSentinel(f) ==
  [status |-> "OPEN",
   first  |-> IF f = <<>> THEN -1 ELSE f[1].off,
   count  |-> Len(f)]

\* Mutant: recovery counts one record too few.
RecoveredShort(f) ==
  [status |-> "OPEN",
   first  |-> IF f = <<>> THEN 0 ELSE f[1].off,
   count  |-> IF f = <<>> THEN 0 ELSE Len(f) - 1]

\* The metadata _recover_open_segment rebuilds from the JSONL file alone.
Recovered(f) ==
  [status |-> "OPEN",
   first  |-> IF f = <<>> THEN 0 ELSE f[1].off,
   count  |-> Len(f)]

\* The non-empty segments form one offset stream that starts at 0; empty
\* segments are skipped (_validate_global_offset_continuity).
Continuous(ms) ==
  \A i \in DOMAIN ms : ms[i].count > 0 =>
    LET before == {k \in 1..(i - 1) : ms[k].count > 0}
    IN  IF before = {}
        THEN ms[i].first = 0
        ELSE \E k \in before :
               /\ \A l \in before : l <= k
               /\ ms[i].first = ms[k].first + ms[k].count

OpenSegments   == {i \in DOMAIN metas : metas[i].status = "OPEN"}
SealedSegments == {i \in DOMAIN metas : metas[i].status = "SEALED"}

\* Mutant: the OPEN segment's metadata must match its file too.
DiskValidStrict ==
  /\ \A i, k \in OpenSegments : i = k
  /\ Len(files) = Len(metas)
  /\ \A i \in DOMAIN metas : Matches(files[i], metas[i])

\* The checks open() makes before its first write to the disk.
DiskValid ==
  /\ \A i, k \in OpenSegments : i = k
  /\ Len(files) = Len(metas)
  /\ \A i \in SealedSegments : Matches(files[i], metas[i])
  /\ \A i \in OpenSegments : Parses(files[i])
  /\ Continuous([i \in DOMAIN metas |->
                   IF i \in OpenSegments THEN Recovered(files[i]) ELSE metas[i]])

\* Mutant: the offset of the last sealed record instead of the one after it.
SealedNextOffsetShort ==
  IF SealedSegments = {}
  THEN 0
  ELSE LET s == CHOOSE i \in SealedSegments : \A k \in SealedSegments : k <= i
       IN  metas[s].first + metas[s].count - 1

\* Mutant: offsets start again at 0 in a new segment.
SealedNextOffsetReset == 0

\* _next_offset as open() sets it before the OPEN segment is replayed: it
\* looks at the last sealed segment only.
SealedNextOffset ==
  IF SealedSegments = {}
  THEN 0
  ELSE LET s == CHOOSE i \in SealedSegments : \A k \in SealedSegments : k <= i
       IN  IF metas[s].count = 0 THEN 0 ELSE metas[s].first + metas[s].count

CurrentMeta == [status |-> "OPEN", first |-> first, count |-> count]
SealedMeta  == [status |-> "SEALED", first |-> first, count |-> count]

\* _save_metadata: an atomic rename onto segment i's metadata file.
SaveMetadata(i, m) ==
  metas' = IF i \in DOMAIN metas THEN [metas EXCEPT ![i] = m]
                                 ELSE Append(metas, m)

\* _save_metadata raises: before the rename, or after it in the directory fsync.
SaveMetadataFails(i, m) ==
  /\ "meta_io" \in Faults
  /\ UNCHANGED metas \/ SaveMetadata(i, m)

\* The operation in progress returns, or raises, to its caller.
Return == /\ pc' = "idle"
          /\ pending' = {}
          /\ acked' = acked \cup pending

Raise  == /\ pc' = "idle"
          /\ pending' = {}
          /\ UNCHANGED acked

-----------------------------------------------------------------------------
(* Opening and closing.                                                    *)

Init ==
  /\ files = <<>> /\ metas = <<>>
  /\ status = "down" /\ pc = "idle" /\ handle = FALSE
  /\ cur = 0 /\ nextOff = 0 /\ first = 0 /\ count = 0
  /\ pending = {} /\ acked = {} /\ written = 0

\* Mutant: the OPEN segment's file is opened in "w" mode, which empties it.
OpenResumeTruncates ==
  /\ status \in {"down", "closed"}
  /\ DiskValid
  /\ \E i \in OpenSegments :
       /\ cur' = i
       /\ files' = [files EXCEPT ![i] = <<>>]
  /\ first' = 0 /\ count' = 0 /\ nextOff' = SealedNextOffset
  /\ status' = "up" /\ pc' = "boot_meta" /\ handle' = TRUE
  /\ UNCHANGED <<metas, pending, acked, written>>

\* Mutant: count and first offset are taken from the OPEN metadata file.
OpenResumeTrustsMeta ==
  /\ status \in {"down", "closed"}
  /\ DiskValid
  /\ \E i \in OpenSegments :
       /\ cur' = i
       /\ first' = metas[i].first
       /\ count' = metas[i].count
       /\ nextOff' = IF files[i] = <<>>
                     THEN SealedNextOffset
                     ELSE files[i][Len(files[i])].off + 1
  /\ status' = "up" /\ pc' = "boot_meta" /\ handle' = TRUE
  /\ UNCHANGED <<files, metas, pending, acked, written>>

\* open() resumes the OPEN segment: it is replayed, and its metadata is to be
\* rewritten from what was replayed.
OpenResume ==
  /\ status \in {"down", "closed"}
  /\ DiskValid
  /\ \E i \in OpenSegments :
       /\ cur' = i
       /\ first' = Recovered(files[i]).first
       /\ count' = Recovered(files[i]).count
       /\ nextOff' = IF files[i] = <<>>
                     THEN SealedNextOffset
                     ELSE files[i][Len(files[i])].off + 1
  /\ status' = "up" /\ pc' = "boot_meta" /\ handle' = TRUE
  /\ UNCHANGED <<files, metas, pending, acked, written>>

\* Mutant: the last segment is made active again although it is sealed.
OpenNewReusesIndex ==
  /\ status \in {"down", "closed"}
  /\ DiskValid
  /\ OpenSegments = {}
  /\ Len(metas) < MaxSegments
  /\ files' = IF files = <<>> THEN <<<<>>>> ELSE files
  /\ cur' = IF files = <<>> THEN 1 ELSE Len(metas)
  /\ first' = 0 /\ count' = 0
  /\ nextOff' = SealedNextOffset
  /\ status' = "up" /\ pc' = "boot_meta" /\ handle' = TRUE
  /\ UNCHANGED <<metas, pending, acked, written>>

\* open() finds no OPEN segment and creates the next one, JSONL file first.
OpenNew ==
  /\ status \in {"down", "closed"}
  /\ DiskValid
  /\ OpenSegments = {}
  /\ Len(metas) < MaxSegments
  /\ files' = Append(files, <<>>)
  /\ cur' = Len(metas) + 1
  /\ first' = 0 /\ count' = 0
  /\ nextOff' = SealedNextOffset
  /\ status' = "up" /\ pc' = "boot_meta" /\ handle' = TRUE
  /\ UNCHANGED <<metas, pending, acked, written>>

\* open() raises LocalWalCorruptionError before it writes anything.
OpenRefused ==
  /\ status \in {"down", "closed"}
  /\ ~DiskValid
  /\ status' = "refused"
  /\ UNCHANGED <<files, metas, pc, memory, pending, acked, written>>

\* The last effect of open(): the active segment's metadata is saved.
BootMeta ==
  /\ pc = "boot_meta"
  /\ SaveMetadata(cur, CurrentMeta)
  /\ pc' = "idle"
  /\ UNCHANGED <<files, status, memory, pending, acked, written>>

\* ... or saving it raises, and open() yields no instance.
BootMetaFails ==
  /\ pc = "boot_meta"
  /\ SaveMetadataFails(cur, CurrentMeta)
  /\ pc' = "idle" /\ status' = "down" /\ handle' = FALSE
  /\ UNCHANGED <<files, cur, nextOff, first, count, pending, acked, written>>

Close ==
  /\ status = "up" /\ pc = "idle"
  /\ status' = "closed" /\ handle' = FALSE
  /\ UNCHANGED <<files, metas, pc, cur, nextOff, first, count,
                 pending, acked, written>>

\* The process dies; its memory is gone and the disk stays as it is.
Crash ==
  /\ "crash" \in Faults
  /\ status = "up"
  /\ status' = "down" /\ pc' = "idle" /\ handle' = FALSE
  /\ pending' = {}
  /\ UNCHANGED <<files, metas, cur, nextOff, first, count, acked, written>>

-----------------------------------------------------------------------------
(* append().                                                               *)

CanAppend == /\ status = "up" /\ pc = "idle" /\ handle
             /\ written < MaxWrites

WriteToActive(e, form) ==
  /\ files' = [files EXCEPT ![cur] =
                 Append(@, [off |-> nextOff, ev |-> e, form |-> form])]
  /\ written' = written + 1

\* Mutant: append() goes on without flush and fsync; the line is lost with the
\* process's buffer.
AppendLineUnflushed(e) ==
  /\ CanAppend
  /\ nextOff' = nextOff + 1
  /\ count' = count + 1
  /\ first' = IF count = 0 THEN nextOff ELSE first
  /\ pending' = {[off |-> nextOff, ev |-> e]}
  /\ written' = written + 1
  /\ pc' = "append_meta"
  /\ UNCHANGED <<files, metas, status, handle, cur, acked>>

\* The line is written, flushed and fsynced, and memory is advanced.
AppendLine(e) ==
  /\ CanAppend
  /\ WriteToActive(e, "line")
  /\ nextOff' = nextOff + 1
  /\ count' = count + 1
  /\ first' = IF count = 0 THEN nextOff ELSE first
  /\ pending' = {[off |-> nextOff, ev |-> e]}
  /\ pc' = "append_meta"
  /\ UNCHANGED <<metas, status, handle, cur, acked>>

\* flush() or fsync() raises after the line went to the file (or to a buffer
\* the next flush writes out): memory is not advanced, the WAL stays open.
AppendLineFails(e) ==
  /\ "append_io" \in Faults
  /\ CanAppend
  /\ WriteToActive(e, "line")
  /\ UNCHANGED <<metas, status, pc, memory, pending, acked>>

\* The process dies inside the write of the line.
CrashInAppend(e, form) ==
  /\ \/ form = "partial" /\ "torn_line" \in Faults
     \/ form = "cut" /\ "torn_newline" \in Faults
  /\ CanAppend
  /\ WriteToActive(e, form)
  /\ status' = "down" /\ handle' = FALSE
  /\ UNCHANGED <<metas, pc, cur, nextOff, first, count, pending, acked>>

\* The active segment's metadata is saved.  The segment rolls over when it is
\* full, or earlier when it is too large or too old (sizes and times are not
\* modelled, so either may happen after any append).
SaveAppendMeta ==
  /\ pc = "append_meta"
  /\ SaveMetadata(cur, CurrentMeta)
  /\ \/ count < MaxEvents /\ Return
     \/ cur < MaxSegments /\ pc' = "seal" /\ UNCHANGED <<pending, acked>>
  /\ UNCHANGED <<files, status, memory, written>>

SaveAppendMetaFails ==
  /\ pc = "append_meta"
  /\ SaveMetadataFails(cur, CurrentMeta)
  /\ Raise
  /\ UNCHANGED <<files, status, memory, written>>

-----------------------------------------------------------------------------
(* Sealing: seal_current_segment() and the rollover at the end of append().*)

\* The active file is closed and its metadata saved as SEALED.
DoSeal ==
  /\ handle
  /\ SaveMetadata(cur, SealedMeta)
  /\ handle' = FALSE
  /\ pc' = "new_file"
  /\ UNCHANGED <<files, status, cur, nextOff, first, count,
                 pending, acked, written>>

\* seal_current_segment() is called.
SealCurrentSegment ==
  /\ status = "up" /\ pc = "idle"
  /\ count > 0 \/ SealEmpty
  /\ cur < MaxSegments
  /\ DoSeal

\* append() rolls over.
RolloverSeal == pc = "seal" /\ DoSeal

\* flush or fsync raises (always, on a file that is already closed): the WAL
\* is marked closed and nothing is saved.
SealFlushFails ==
  /\ \/ status = "up" /\ pc = "idle"
     \/ pc = "seal"
  /\ "seal_io" \in Faults \/ ~handle
  /\ Raise
  /\ status' = "closed" /\ handle' = FALSE
  /\ UNCHANGED <<files, metas, cur, nextOff, first, count, written>>

\* Saving the SEALED metadata raises: the file is closed, the WAL is not.
SealMetaFails ==
  /\ \/ /\ status = "up" /\ pc = "idle"
        /\ count > 0 \/ SealEmpty
     \/ pc = "seal"
  /\ handle
  /\ SaveMetadataFails(cur, SealedMeta)
  /\ Raise
  /\ handle' = FALSE
  /\ UNCHANGED <<files, status, cur, nextOff, first, count, written>>

\* The next segment becomes active and its JSONL file is created.
NewFile ==
  /\ pc = "new_file"
  /\ cur' = cur + 1
  /\ first' = 0 /\ count' = 0
  /\ files' = Append(files, <<>>)
  /\ handle' = TRUE
  /\ pc' = "new_meta"
  /\ UNCHANGED <<metas, status, nextOff, pending, acked, written>>

NewFileFails ==
  /\ "file_io" \in Faults
  /\ pc = "new_file"
  /\ cur' = cur + 1
  /\ first' = 0 /\ count' = 0
  /\ Raise
  /\ UNCHANGED <<files, metas, status, handle, nextOff, written>>

\* The new segment's OPEN metadata is saved and the operation returns.
NewMeta ==
  /\ pc = "new_meta"
  /\ SaveMetadata(cur, CurrentMeta)
  /\ Return
  /\ UNCHANGED <<files, status, memory, written>>

NewMetaFails ==
  /\ pc = "new_meta"
  /\ SaveMetadataFails(cur, CurrentMeta)
  /\ Raise
  /\ UNCHANGED <<files, status, memory, written>>

Next ==
  \/ OpenResume \/ OpenNew \/ OpenRefused
  \/ BootMeta \/ BootMetaFails
  \/ Close \/ Crash
  \/ \E e \in Events : AppendLine(e)
  \/ \E e \in Events : AppendLineFails(e)
  \/ \E e \in Events, form \in {"cut", "partial"} : CrashInAppend(e, form)
  \/ SaveAppendMeta \/ SaveAppendMetaFails
  \/ SealCurrentSegment \/ RolloverSeal \/ SealFlushFails \/ SealMetaFails
  \/ NewFile \/ NewFileFails \/ NewMeta \/ NewMetaFails

Spec == Init /\ [][Next]_vars

-----------------------------------------------------------------------------
(* Properties.                                                             *)

\* A crash between the creation of a JSONL file and its metadata leaves an
\* orphan file; a crash inside a write leaves a torn line.
Orphan == Len(files) > Len(metas)
Torn   == \E i \in DOMAIN files : \E j \in DOMAIN files[i] :
            files[i][j].form = "partial"

\* Durability: a record whose append returned APPENDED stays on the disk, as
\* a whole line at the offset that was returned, whatever crashes follow.
OnDisk(r) ==
  \E i \in DOMAIN files : \E j \in DOMAIN files[i] :
    files[i][j] = [off |-> r.off, ev |-> r.ev, form |-> "line"]
AckedOnDisk == \A a \in acked : OnDisk(a)

\* "Offsets are globally monotonic across segments and never reset on
\* rollover": the next offset is above every offset the disk already holds,
\* also after a restart.
OffsetsNeverReset ==
  status = "up" =>
    \A i \in DOMAIN files : \A j \in DOMAIN files[i] :
      files[i][j].off < nextOff

\* No two appends are acknowledged with the same offset.
AckedOffsetsUnique ==
  \A a, b \in acked : a.off = b.off => a = b

\* iter_records() on a live instance raises nothing: every segment agrees
\* with the metadata the instance holds for it, and offsets run from 0
\* without a gap across segments.
SegmentMeta(i) == IF i = cur THEN CurrentMeta ELSE metas[i]
ReadsBack ==
  status = "up" /\ pc = "idle" /\ handle =>
    /\ \A i \in 1..cur : Matches(files[i], SegmentMeta(i))
    /\ Continuous([i \in 1..cur |-> SegmentMeta(i)])

\* The only disks open() refuses are the two the code says it detects: an
\* orphan JSONL file and a torn line.  Every other crash window is recovered.
Recoverable == ~Orphan /\ ~Torn => DiskValid

\* "Segment files are never deleted or moved": once a segment is SEALED, no
\* step, crash or restart changes its file or its metadata.
SealedImmutable ==
  [][\A i \in SealedSegments :
       /\ files'[i] = files[i]
       /\ metas'[i] = metas[i]]_vars

-----------------------------------------------------------------------------
(* The inductive invariant behind the safety properties, for callers that   *)
(* never seal an empty segment and an environment without the two faults   *)
(* append() does not handle.                                               *)

Healthy ==
  /\ ~SealEmpty
  /\ SplitEvents = {}
  /\ "append_io" \notin Faults
  /\ "torn_newline" \notin Faults

\* The offset after segment i's last record.
End(i) == files[i][1].off + Len(files[i])

\* The offset after the last record on the disk: only the last segment may be
\* empty.
DiskEnd ==
  IF files = <<>> THEN 0
  ELSE IF files[Len(files)] # <<>> THEN End(Len(files))
  ELSE IF Len(files) = 1 THEN 0 ELSE End(Len(files) - 1)

\* Offsets count up within a file and from one file to the next.
OffsetsInOrder ==
  /\ \A i \in DOMAIN files : \A j \in DOMAIN files[i] :
       files[i][j].off = files[i][1].off + j - 1
  /\ \A i \in DOMAIN files : i < Len(files) => files[i] # <<>>
  /\ files # <<>> /\ files[1] # <<>> => files[1][1].off = 0
  /\ \A i \in DOMAIN files : i > 1 /\ files[i] # <<>> =>
       files[i][1].off = End(i - 1)
  /\ \A i, k \in DOMAIN files : i < k /\ files[k] # <<>> =>
       End(i) <= files[k][1].off

\* Only the last write of the last file can be torn, and not while a process
\* is up or once the segment is sealed.
LinesWhole ==
  \A i \in DOMAIN files : \A j \in DOMAIN files[i] :
    \/ files[i][j].form = "line"
    \/ /\ files[i][j].form = "partial"
       /\ i = Len(files) /\ j = Len(files[i])
       /\ i \in DOMAIN metas => metas[i].status = "OPEN"
       /\ status # "up"

\* Metadata lags at most one file behind; all but the last segment is sealed,
\* and sealed metadata describes a non-empty file exactly.
MetasAgree ==
  /\ Len(metas) <= Len(files) /\ Len(files) <= Len(metas) + 1
  /\ \A i \in DOMAIN metas :
       IF metas[i].status = "OPEN"
       THEN i = Len(files)
       ELSE /\ files[i] # <<>>
            /\ metas[i].count = Len(files[i])
            /\ metas[i].first = files[i][1].off

\* What a live instance holds in memory agrees with the disk.
MemoryAgrees ==
  /\ pc # "idle" => status = "up"
  /\ handle => status = "up"
  /\ pc \in {"boot_meta", "append_meta", "seal", "new_meta"} => handle
  /\ pc \in {"append_meta", "seal"} => count > 0
  /\ pc = "new_file" =>
       /\ ~handle /\ cur = Len(files) /\ Len(metas) = Len(files)
       /\ metas[cur].status = "SEALED"
  /\ status = "up" => nextOff = DiskEnd
  /\ handle =>
       /\ cur = Len(files) /\ cur > 0
       /\ cur \in DOMAIN metas => metas[cur].status = "OPEN"
       /\ count = Len(files[cur])
       /\ count > 0 => first = files[cur][1].off

\* Every record append() has returned, or is about to, is on the disk.
RecordsOnDisk == \A r \in pending \cup acked : OnDisk(r)

WalInv ==
  /\ TypeOK
  /\ OffsetsInOrder
  /\ LinesWhole
  /\ MetasAgree
  /\ MemoryAgrees
  /\ RecordsOnDisk

-----------------------------------------------------------------------------
(* Refinement: the disk, read in offset order, is the journal's log.       *)

NonEmpty == {i \in DOMAIN files : \E j \in DOMAIN files[i] :
                                    files[i][j].form # "partial"}

\* One more than the offset of the last whole record on the disk.
DiskNext ==
  IF NonEmpty = {} THEN 0
  ELSE LET i == CHOOSE i \in NonEmpty : \A k \in NonEmpty : k <= i
           whole == {j \in DOMAIN files[i] : files[i][j].form # "partial"}
           j == CHOOSE j \in whole : \A k \in whole : k <= j
       IN  files[i][j].off + 1

DiskEvent(o) ==
  LET i == CHOOSE i \in NonEmpty : \E j \in DOMAIN files[i] :
             files[i][j].off = o /\ files[i][j].form # "partial"
      j == CHOOSE j \in DOMAIN files[i] :
             files[i][j].off = o /\ files[i][j].form # "partial"
  IN  files[i][j].ev

Journal == INSTANCE EventJournal
  WITH log <- [o \in 1..DiskNext |-> DiskEvent(o - 1)],
       acknowledged <- acked

\* The WAL implements the append-only journal the relay is written against.
ImplementsEventJournal == Journal!JSpec
=============================================================================
