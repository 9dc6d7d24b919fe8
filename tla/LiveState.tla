------------------------------ MODULE LiveState ------------------------------
(***************************************************************************)
(* live_state: a bot's view of one stream partition is stitched from a     *)
(* slice of the historical DB and a slice of the live tail.  The two are   *)
(* read at different moments, while the stream grows, the DB writer moves  *)
(* on and an event the live projection showed before it was durable may    *)
(* become another event of the durable stream.                             *)
(*                                                                         *)
(* An event is its offset and its identity (the event id covers the        *)
(* payload hash); event_sequence runs with the offset, event times are     *)
(* left out, and there is one stream and partition (the mismatch checks    *)
(* never fire).                                                            *)
(***************************************************************************)
EXTENDS Integers, Sequences, FiniteSets

CONSTANTS NoSlice,     \* no slice, no checkpoint, no event
          MaxEvents,   \* bound on the durable stream
          Freshness    \* what the projection says of a tail: records of
                       \* [stale, gap_free, complete]

ASSUME MaxEventsAssumption == MaxEvents \in Nat \ {0}
(* None is neither an offset nor a StitchFailureReason. *)
ASSUME NoSliceAssumption ==
    /\ NoSlice \notin Nat
    /\ NoSlice \notin {"INCOMPLETE_HISTORY", "LIVE_HISTORY_GAP", "STALE_LIVE_STATE",
                       "SPECULATIVE_NOT_ALLOWED"}

VARIABLES log,         \* the durable stream: identities by offset + 1
          spec,        \* identity of the event the projection shows past it
          rows,        \* offsets whose event is in the historical DB
          ckpt,        \* DbWriterCheckpoint.persisted_until_offset
          hist,        \* the HistoricalStateSlice a bot holds
          tail         \* the LiveTailSlice a bot holds

liveVars == <<log, spec, rows, ckpt, hist, tail>>

(* What the projection showed, and what the durable stream has instead. *)
Ids == {"shown", "other"}
DurabilityRank == [LIVE_ACCEPTED |-> 0, DURABLE_COMMITTED |-> 1,
                   PROJECTED_TO_LIVE_STATE |-> 2, PERSISTED_TO_DB |-> 3,
                   RECONCILED |-> 4]

Event(o, i) == [offset |-> o, id |-> i]
Durable == {Event(o, log[o + 1]) : o \in 0..(Len(log) - 1)}
Shown == Durable \cup (IF spec = NoSlice THEN {} ELSE {Event(Len(log), spec)})
Between(events, lo, hi) == {e \in events : lo <= e.offset /\ e.offset <= hi}
Offsets(events) == {e.offset : e \in events}
Lowest(S) == CHOOSE x \in S : \A y \in S : x <= y
Highest(S) == CHOOSE x \in S : \A y \in S : x >= y

(* _validate_ordered_events and _validate_contiguous_events: one event per *)
(* offset, and no offset left out between the first and the last.          *)
Ordered(events) == \A d, e \in events : d.offset = e.offset => d = e
Contiguous(events) ==
    Ordered(events) /\ \A d, e \in events :
        d.offset..e.offset \subseteq Offsets(events)

-----------------------------------------------------------------------------
(* The slices and their validators. *)

(* InMemoryHistoricalStateReader.read_slice over the rows in the DB; the   *)
(* explicit position of an empty slice is the DB writer's checkpoint.      *)
HistoricalSlice(lo, hi) ==
    LET events == Between({e \in Durable : e.offset \in rows}, lo, hi)
    IN  [from |-> lo,
         to |-> IF events = {} THEN hi ELSE Highest(Offsets(events)),
         events |-> events,
         persisted |-> IF events = {} THEN ckpt ELSE Highest(Offsets(events)),
         gap_free |-> Contiguous(events)]

HistoricalSliceValid(h) ==
    /\ h.persisted # NoSlice
    /\ h.events # {} => /\ Ordered(h.events)
                        /\ h.from = Lowest(Offsets(h.events))
                        /\ h.to = Highest(Offsets(h.events))
                        /\ h.gap_free => Contiguous(h.events)
                        /\ h.persisted >= h.to

(* A tail of what the projection shows, from offset lo on; it is           *)
(* speculative when it holds an event that is not durable yet.             *)
LiveTail(lo, f) ==
    LET events == {e \in Shown : e.offset >= lo}
        speculative == spec # NoSlice /\ events # {}
    IN  [from |-> lo,
         events |-> events,
         durable |-> Len(log),
         stale |-> f.stale, gap_free |-> f.gap_free, complete |-> f.complete,
         speculative |-> speculative,
         durability |-> IF speculative THEN "LIVE_ACCEPTED" ELSE "DURABLE_COMMITTED"]

(* LiveStateFreshness and LiveTailSlice. *)
LiveTailValid(t) ==
    /\ ~t.speculative
         => DurabilityRank[t.durability] >= DurabilityRank["DURABLE_COMMITTED"]
    /\ t.events # {} => /\ Contiguous(t.events)
                        /\ t.from = Lowest(Offsets(t.events))

-----------------------------------------------------------------------------
(* DeterministicStateStitcher.stitch. *)

(* LiveStateFreshness.is_tradable_for_policy. *)
IsTradableForPolicy(t, p) ==
    /\ ~t.stale
    /\ p.require_gap_free => t.gap_free
    /\ p.require_complete => t.complete
    /\ t.speculative => p.allow_speculative
    /\ DurabilityRank[t.durability] >= DurabilityRank[p.minimum_durability]

ContinuityBoundary(h) == IF h.events # {} THEN h.to ELSE h.persisted

HasTail(t) == t # NoSlice /\ (t # NoSlice => t.events # {})
HasGap(h, t) == HasTail(t) /\ (HasTail(t) => t.from > ContinuityBoundary(h) + 1)

(* Tail events the history should already hold. *)
Overlap(h, t) ==
    IF HasTail(t) THEN {e \in t.events : e.offset <= ContinuityBoundary(h)} ELSE {}
\* Mutant: event identities of the overlap are not compared.
AnyOverlapAccepted(h, t) == FALSE
InvalidOverlap(h, t) == ~(Overlap(h, t) \subseteq h.events)

MergeEvents(h, t) ==
    h.events \cup (IF HasTail(t) THEN t.events \ Overlap(h, t) ELSE {})

StitchReason(h, t, p) ==
    CASE ~h.gap_free -> "INCOMPLETE_HISTORY"
      [] h.gap_free /\ HasGap(h, t) -> "LIVE_HISTORY_GAP"
      [] h.gap_free /\ ~HasGap(h, t) ->
           IF t = NoSlice
           THEN IF h.events = {} THEN "INCOMPLETE_HISTORY" ELSE NoSlice
           ELSE IF t.stale THEN "STALE_LIVE_STATE"
           ELSE IF t.speculative /\ ~p.allow_speculative THEN "SPECULATIVE_NOT_ALLOWED"
           ELSE IF ~IsTradableForPolicy(t, p) THEN "INCOMPLETE_HISTORY"
           ELSE NoSlice

IsGapFree(h, t) == h.gap_free /\ ~HasGap(h, t) /\ (t # NoSlice => t.gap_free)

(* StitchedStateSlice and its validator: NoSlice is a ValueError. *)
Stitch(h, t, p) ==
    LET events == MergeEvents(h, t)
        reason == StitchReason(h, t, p)
        gap_free == IsGapFree(h, t)
        complete == reason \notin {"LIVE_HISTORY_GAP", "INCOMPLETE_HISTORY"} /\ gap_free
        valid == /\ ~InvalidOverlap(h, t)
                 /\ Ordered(events)
                 /\ gap_free => Contiguous(events)
                 /\ reason = NoSlice => complete /\ gap_free
    IN  IF valid THEN [events |-> events, complete |-> complete, gap_free |-> gap_free,
                       tradable |-> reason = NoSlice, reason |-> reason]
                 ELSE NoSlice

-----------------------------------------------------------------------------
(* The stream, the projection and the DB writer (external, deferred in the *)
(* repository), and the stores they write to.                              *)

AcceptEvent ==
    /\ spec = NoSlice /\ Len(log) < MaxEvents
    /\ spec' = "shown"
    /\ UNCHANGED <<log, rows, ckpt, hist, tail>>

(* The event becomes durable, or another takes its offset. *)
Commit ==
    /\ spec # NoSlice
    /\ \E i \in Ids : log' = Append(log, i)
    /\ spec' = NoSlice
    /\ UNCHANGED <<rows, ckpt, hist, tail>>

(* Rows become visible in any order. *)
Persist ==
    /\ \E o \in (0..(Len(log) - 1)) \ rows : rows' = rows \cup {o}
    /\ UNCHANGED <<log, spec, ckpt, hist, tail>>

(* InMemoryDbWriterCheckpointStore.save_checkpoint for a row that is the   *)
(* last of a persisted prefix; validate_advances_from refuses a lower one. *)
SaveCheckpoint ==
    /\ \E o \in rows : /\ 0..o \subseteq rows
                       /\ ckpt # NoSlice => o >= ckpt
                       /\ ckpt' = o
    /\ UNCHANGED <<log, spec, rows, hist, tail>>

ReadHistory ==
    /\ \E lo \in 0..MaxEvents : \E hi \in lo..MaxEvents :
         /\ HistoricalSliceValid(HistoricalSlice(lo, hi))
         /\ hist' = HistoricalSlice(lo, hi)
    /\ UNCHANGED <<log, spec, rows, ckpt, tail>>

ReadTail ==
    /\ \E lo \in 0..MaxEvents, f \in Freshness :
         /\ LiveTailValid(LiveTail(lo, f))
         /\ tail' = LiveTail(lo, f)
    /\ UNCHANGED <<log, spec, rows, ckpt, hist>>

LiveInit ==
    /\ log = <<>> /\ spec = NoSlice
    /\ rows = {} /\ ckpt = NoSlice
    /\ hist = NoSlice /\ tail = NoSlice

LiveNext ==
    \/ AcceptEvent \/ Commit \/ Persist \/ SaveCheckpoint
    \/ ReadHistory \/ ReadTail

-----------------------------------------------------------------------------
(* A slice stitched from what the bot holds and marked tradable is the     *)
(* stream: one event at every offset from its first to its last, agreeing  *)
(* with every event of the history and of the tail it was made from,       *)
(* attached to what the DB holds (nothing lost between the persisted end   *)
(* and the first event), and made of durable events, except those a policy *)
(* that allows speculative state accepts past the durable end.  The        *)
(* history and the tail are read at different times (stitcher.py 59-112).  *)
TradableSliceIsTheStream(policies) ==
    hist # NoSlice => \A p \in policies, t \in {NoSlice, tail} :
        LET s == Stitch(hist, t, p)
        IN  (s # NoSlice /\ (s # NoSlice => s.tradable)) =>
              /\ Contiguous(s.events)
              /\ hist.events \subseteq s.events
              /\ t # NoSlice => t.events \subseteq s.events
              /\ s.events # {} => Lowest(Offsets(s.events)) <= hist.persisted + 1
              /\ \A e \in s.events \ Durable :
                    /\ p.allow_speculative
                    /\ IF t = NoSlice THEN FALSE
                       ELSE t.speculative /\ e.offset >= t.durable
=============================================================================
