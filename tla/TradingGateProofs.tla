-------------------------- MODULE TradingGateProofs --------------------------
(***************************************************************************)
(* Proofs that what stands between a decision stack and an order is sound, *)
(* for every stream, every set of kill switches, exposures and policies,   *)
(* and every number of concurrent imports.                                 *)
(*                                                                         *)
(* The three components share no variable, so each has its own inductive   *)
(* invariant and its own lemmas; the theorems combine them over GateNext.  *)
(***************************************************************************)
EXTENDS TradingGate, WellFoundedInduction, TLAPS

-----------------------------------------------------------------------------
(* The inductive invariant of the control plane: who owes a resync is in   *)
(* one of the states it can leave only for a resync or for a state that    *)
(* halts or shelters it, so it is not running.                             *)

OwesProgramResync == {"PAUSED", "STOPPED", "ERROR"}
OwesStackResync == {"PAUSED", "STOPPED", "ERROR", "RESYNC_REQUIRED"}

ControlInv ==
    /\ resync \in [{"program", "stack"} -> {"starting", "owed", "sheltered", "done"}]
    /\ resync["program"] = "owed" => program_state \in OwesProgramResync
    /\ resync["stack"] = "owed" => stack_state \in OwesStackResync
    /\ \A k \in SwitchIds : switches[k] = NoSwitch \/ switches[k].scope \in Scopes
    /\ DOMAIN switches = SwitchIds

LEMMA ControlStart == ControlInit => ControlInv
BY DEF ControlInit, ControlInv, OwesStackResync

LEMMA ControlKeeps == ControlInv /\ ControlStep => ControlInv'
<1> SUFFICES ASSUME ControlInv, ControlStep
             PROVE  ControlInv'
  OBVIOUS
<1>1. ASSUME NEW to \in ProgramStates, ProgramTransition(to)
      PROVE  ControlInv'
  BY <1>1 DEF ControlInv, ProgramTransition, ProgramTransitionAllowed, AfterEntering,
     OwesProgramResync, ProgramStates
<1>2. ASSUME NEW to \in StackStates, StackTransition(to)
      PROVE  ControlInv'
  BY <1>2 DEF ControlInv, StackTransition, StackTransitionAllowed, AfterEntering,
     OwesStackResync, StackStates
<1>3. ASSUME NEW k \in SwitchIds, NEW s \in Scopes, NEW on \in BOOLEAN,
             SaveKillSwitch(k, s, on)
      PROVE  ControlInv'
  BY <1>3 DEF ControlInv, SaveKillSwitch
<1> QED
  BY <1>1, <1>2, <1>3 DEF ControlStep, ControlNext

LEMMA ControlFrame == ControlInv /\ UNCHANGED controlVars => ControlInv'
BY DEF ControlInv, controlVars

-----------------------------------------------------------------------------
(* What the permission says, for every exposure, policy and data health.   *)

\* No switch blocks the caller, so every one that applies to the order is one
\* the store does not list.
LEMMA BlocksCoverage ==
    ControlInv /\ ~KillSwitchBlocks => \A k \in SwitchIds : SwitchApplies(k) => Unlisted(k)
<1> SUFFICES ASSUME ControlInv, NEW k \in SwitchIds, SwitchApplies(k), ~Unlisted(k)
             PROVE  KillSwitchBlocks
  OBVIOUS
<1> DEFINE s == switches[k].scope
<1>1. switches[k] # NoSwitch /\ switches[k].enabled /\ AppliesTo(k)
  BY DEF SwitchApplies, AppliesTo
<1>2. s \in Scopes
  BY <1>1 DEF ControlInv
<1>3. s = [kind |-> s.kind, id |-> s.id] /\ s.kind \in KillSwitchScopeKinds
  BY <1>2, ScopesAssumption
<1>4. s.kind = "GLOBAL" \/ s.id = OwnScope[s.kind]
  BY <1>1, <1>3 DEF AppliesTo, Unlisted, KillSwitchScopeKinds
<1>5. k \in ListMatching(s.kind, OwnScope[s.kind])
  BY <1>1, <1>3, <1>4 DEF ListMatching
<1>6. k \in MatchingSwitches
  BY <1>3, <1>5 DEF MatchingSwitches
<1> QED
  BY <1>1, <1>6 DEF KillSwitchBlocks

\* What an OK permission has found of the control plane, the exposure and the
\* data.
LEMMA OkMeans ==
    ASSUME NEW x, NEW d, NEW p, BlockingReason(x, d, p) = "OK"
    PROVE  /\ ~KillSwitchBlocks
           /\ program_state = "RUNNING" /\ stack_state = "RUNNING"
           /\ ~RequiresEntryBlock(x) /\ ~x.unknown_fills /\ ~x.unreconciled
           /\ d.unknown \cap {"account", "orders", "fills", "ledger"} = {}
           /\ ~d.over_age /\ ~d.stale
           /\ ~(p.block_entries_on_any_gap /\ GapOrUnavailable(d))
<1>1. /\ ~KillSwitchBlocks
      /\ program_state = "RUNNING"
      /\ StackStateReason(stack_state) = "OK"
      /\ ProtectionModeReason(x) = "OK"
  BY DEF BlockingReason
<1>2. stack_state = "RUNNING"
  BY <1>1 DEF StackStateReason
<1>3. ~RequiresEntryBlock(x)
  BY <1>1 DEF ProtectionModeReason
<1>4. /\ ~x.unknown_fills /\ ~x.unreconciled
      /\ "account" \notin d.unknown /\ "ledger" \notin d.unknown
      /\ "fills" \notin d.unknown /\ "orders" \notin d.unknown
      /\ ~d.over_age /\ ~d.stale
      /\ ~(p.block_entries_on_any_gap /\ GapOrUnavailable(d))
  BY <1>1 DEF BlockingReason
<1> QED
  BY <1>1, <1>2, <1>3, <1>4

LEMMA EntriesSafe ==
    ASSUME ControlInv, NEW x, NEW p, NEW u \in Unknowns
    PROVE  EntriesOnlyWhenSafe(OrderFlowPermission(x, DataHealth(u), p), x, DataHealth(u), p)
<1> DEFINE d == DataHealth(u)
<1>1. d.unknown = u
  BY DEF DataHealth
<1>2. u \subseteq {"account", "orders", "fills", "ledger"}
  BY UnknownsAssumption
<1> HIDE DEF d
<1> SUFFICES ASSUME BlockingReason(x, d, p) = "OK"
             PROVE  /\ program_state = "RUNNING" /\ stack_state = "RUNNING"
                    /\ "owed" \notin {resync["program"], resync["stack"]}
                    /\ \A k \in SwitchIds : SwitchApplies(k) => Unlisted(k)
                    /\ ~x.unknown_fills /\ ~x.unreconciled /\ ~RequiresEntryBlock(x)
                    /\ Degraded(d) => GapOrUnavailable(d) /\ ~p.block_entries_on_any_gap
  BY DEF EntriesOnlyWhenSafe, OrderFlowPermission, d
<1>3. "owed" \notin {resync["program"], resync["stack"]}
  BY OkMeans DEF ControlInv, OwesProgramResync, OwesStackResync
<1>4. \A k \in SwitchIds : SwitchApplies(k) => Unlisted(k)
  BY OkMeans, BlocksCoverage
<1>5. ~SevereUnknown(d)
  BY <1>1, <1>2, OkMeans DEF SevereUnknown
<1>6. Degraded(d) => GapOrUnavailable(d) /\ ~p.block_entries_on_any_gap
  BY <1>5, OkMeans DEF Degraded
<1> QED
  BY <1>3, <1>4, <1>6, OkMeans

LEMMA WayOut ==
    ASSUME NEW x, NEW p, NEW d
    PROVE  ExposureKeepsAWayOut(OrderFlowPermission(x, d, p), x, d, p)
BY DEF ExposureKeepsAWayOut, OrderFlowPermission, AllowProtection, Degraded,
   ProtectionOverrides, RequiresManual

LEMMA EntriesOnTradableView ==
    ASSUME NEW x, NEW p, NEW u,
           OrderFlowPermission(x, DataHealth(u), p).new_entries,
           p.block_entries_on_any_gap
    PROVE  Stitched # NoSlice /\ Stitched.tradable
<1> DEFINE d == DataHealth(u)
<1>1. BlockingReason(x, d, p) = "OK"
  BY DEF OrderFlowPermission
<1>2. ~GapOrUnavailable(d) /\ ~d.stale
  BY <1>1, OkMeans
<1>3. /\ Stitched # NoSlice
      /\ Stitched.gap_free /\ Stitched.complete
  BY <1>2 DEF DataHealth, GapOrUnavailable
<1> QED
  BY <1>2, <1>3 DEF DataHealth

LEMMA PermissionSound == ControlInv => PermissionIsSound
BY EntriesSafe, WayOut, EntriesOnTradableView DEF PermissionIsSound

-----------------------------------------------------------------------------
(* The inductive invariant of the stream: what a bot holds was read from    *)
(* the stream as it was, and the durable stream only grows.                 *)

\* The history a bot holds ends where it says and is durable.
HistoryHeld(h) ==
    /\ h.persisted \in Nat
    /\ h.gap_free \in BOOLEAN
    /\ h.events \subseteq Durable
    /\ h.events # {} => /\ \A e \in h.events : e.offset <= h.to
                        /\ h.to \in Offsets(h.events) /\ h.persisted = h.to

\* A tail holds durable events below the durable end it was read at, and
\* says so when it holds any above.
TailHeld(t) ==
    /\ t.durable \in Nat
    /\ t.speculative \in BOOLEAN
    /\ \A e \in t.events : e.offset \in Nat
    /\ \A e \in t.events \ Durable : t.speculative /\ e.offset >= t.durable
    /\ t.events # {} => /\ t.from \in Offsets(t.events)
                        /\ \A e \in t.events : t.from <= e.offset

LiveInv ==
    /\ log \in Seq(Ids)
    /\ spec \in Ids \cup {NoSlice}
    /\ rows \subseteq Nat
    /\ ckpt \in rows \cup {NoSlice}
    /\ hist # NoSlice => HistoryHeld(hist)
    /\ tail # NoSlice => TailHeld(tail)

-----------------------------------------------------------------------------
(* Bounds of sets of offsets. *)

LEMMA LowestIs ==
    ASSUME NEW S \in SUBSET Nat, S # {}
    PROVE  Lowest(S) \in S /\ \A y \in S : Lowest(S) <= y
<1> DEFINE R == OpToRel(<, Nat)
<1>1. IsWellFoundedOn(R, Nat)
  BY NatLessThanWellFounded
<1>2. PICK m \in S : \A k \in S : ~(<<k, m>> \in R)
  <2> HIDE DEF R
  <2> QED
    BY <1>1, WFMin
<1>3. \A k \in S : ~(k < m)
  BY <1>2 DEF OpToRel
<1>4. \A k \in S : m <= k
  BY <1>3
<1> QED
  BY <1>4 DEF Lowest

LEMMA HighestIs ==
    ASSUME NEW n \in Nat, NEW S \in SUBSET (0 .. n), S # {}
    PROVE  Highest(S) \in S /\ \A y \in S : Highest(S) >= y
<1> DEFINE T == {i \in 0 .. n : n - i \in S}
<1>1. T \in SUBSET Nat /\ T # {}
  <2>1. PICK i \in 0 .. n : i \in S
    OBVIOUS
  <2> DEFINE k == n - i
  <2>2. k \in 0 .. n /\ n - k = i
    OBVIOUS
  <2>3. k \in T
    <3> HIDE DEF k
    <3> QED
      BY <2>1, <2>2
  <2>4. T \subseteq Nat
    OBVIOUS
  <2> HIDE DEF T
  <2> QED
    BY <2>3, <2>4
<1>2. Lowest(T) \in T /\ \A y \in T : Lowest(T) <= y
  <2> HIDE DEF T
  <2> QED
    BY <1>1, LowestIs
<1> DEFINE m == n - Lowest(T)
<1>3. m \in S
  BY <1>2
<1>4. \A y \in S : m >= y
  <2> SUFFICES ASSUME NEW y \in S
               PROVE  m >= y
    OBVIOUS
  <2>1. n - y \in T
    <3>1. n - y \in 0 .. n /\ n - (n - y) = y
      OBVIOUS
    <3> QED
      BY <3>1
  <2>2. Lowest(T) <= n - y
    BY <1>2, <2>1
  <2>3. Lowest(T) \in 0 .. n
    BY <1>2
  <2> HIDE DEF T
  <2> QED
    BY <2>2, <2>3
<1> QED
  BY <1>3, <1>4 DEF Highest

LEMMA DurableOffsets ==
    ASSUME LiveInv, NEW e \in Durable
    PROVE  /\ e.offset \in 0 .. Len(log) - 1
           /\ e = Event(e.offset, log[e.offset + 1])
BY DEF Durable, Event, LiveInv

-----------------------------------------------------------------------------
(* What a bot reads. *)

LEMMA HistoryRead ==
    ASSUME LiveInv, NEW lo \in 0 .. MaxEvents, NEW hi \in lo .. MaxEvents,
           HistoricalSliceValid(HistoricalSlice(lo, hi))
    PROVE  HistoryHeld(HistoricalSlice(lo, hi))
<1> DEFINE h == HistoricalSlice(lo, hi)
           events == Between({e \in Durable : e.offset \in rows}, lo, hi)
<1>1. /\ h.events = events
      /\ h.to = (IF events = {} THEN hi ELSE Highest(Offsets(events)))
      /\ h.persisted = (IF events = {} THEN ckpt ELSE Highest(Offsets(events)))
      /\ h.gap_free = Contiguous(events)
  BY DEF HistoricalSlice
<1>2. h.persisted # NoSlice
  BY DEF HistoricalSliceValid
<1>3. events \subseteq Durable
  BY DEF Between
<1>4. h.gap_free \in BOOLEAN
  BY <1>1 DEF Contiguous, Ordered
<1> SUFFICES HistoryHeld(h)
  OBVIOUS
<1> HIDE DEF h, events
<1>5. CASE events = {}
  BY <1>1, <1>2, <1>3, <1>4, <1>5 DEF HistoryHeld, LiveInv
<1>6. CASE events # {}
  <2>1. Offsets(events) \subseteq 0 .. Len(log) /\ Offsets(events) # {}
    BY <1>3, <1>6, DurableOffsets DEF Offsets, LiveInv
  <2>2. Len(log) \in Nat
    BY DEF LiveInv
  <2>3. /\ Highest(Offsets(events)) \in Offsets(events)
        /\ \A y \in Offsets(events) : Highest(Offsets(events)) >= y
    BY <2>1, <2>2, HighestIs
  <2>4. \A e \in events : e.offset \in Offsets(events)
    BY DEF Offsets
  <2>5. h.to \in Nat /\ h.to = Highest(Offsets(events)) /\ h.persisted = h.to
    BY <1>1, <1>6, <2>1, <2>2, <2>3
  <2>6. \A e \in events : e.offset <= h.to
    BY <2>1, <2>2, <2>3, <2>4, <2>5
  <2> QED
    BY <1>1, <1>3, <1>4, <2>3, <2>5, <2>6 DEF HistoryHeld
<1> QED
  BY <1>5, <1>6

LEMMA TailRead ==
    ASSUME LiveInv, NEW lo \in 0 .. MaxEvents, NEW f \in Freshness,
           LiveTailValid(LiveTail(lo, f))
    PROVE  TailHeld(LiveTail(lo, f))
<1> DEFINE t == LiveTail(lo, f)
           events == {e \in Shown : e.offset >= lo}
<1>1. /\ t.events = events
      /\ t.durable = Len(log)
      /\ t.speculative = (spec # NoSlice /\ events # {})
      /\ t.from = lo
  BY DEF LiveTail
<1>2. \A e \in events : e \in Durable \/ (spec # NoSlice /\ e = Event(Len(log), spec))
  BY DEF Shown
<1>3. Len(log) \in Nat
  BY DEF LiveInv
<1>4. \A e \in events : e.offset \in Nat
  BY <1>2, <1>3, DurableOffsets DEF Event
<1>5. t.events # {} => t.from = Lowest(Offsets(t.events))
  BY DEF LiveTailValid
<1> HIDE DEF t, events
<1>6. t.events # {} => /\ t.from \in Offsets(t.events)
                       /\ \A e \in t.events : t.from <= e.offset
  <2> SUFFICES ASSUME events # {}
               PROVE  /\ t.from \in Offsets(events)
                      /\ \A e \in events : t.from <= e.offset
    BY <1>1
  <2>1. Offsets(events) \in SUBSET Nat /\ Offsets(events) # {}
    BY <1>4 DEF Offsets
  <2>2. /\ Lowest(Offsets(events)) \in Offsets(events)
        /\ \A y \in Offsets(events) : Lowest(Offsets(events)) <= y
    BY <2>1, LowestIs
  <2> QED
    BY <1>1, <1>5, <2>2 DEF Offsets
<1>7. ASSUME NEW e \in t.events \ Durable
      PROVE  t.speculative /\ e.offset >= t.durable
  <2>1. spec # NoSlice /\ e = Event(Len(log), spec)
    BY <1>1, <1>2
  <2>2. e.offset = Len(log)
    BY <2>1 DEF Event
  <2>3. t.speculative
    BY <1>1, <2>1
  <2> QED
    BY <1>1, <1>3, <2>2, <2>3
<1> QED
  BY <1>1, <1>3, <1>4, <1>6, <1>7 DEF TailHeld, t

-----------------------------------------------------------------------------
(* The invariant. *)

LEMMA LiveStart == LiveInit => LiveInv
BY DEF LiveInit, LiveInv

LEMMA DurableGrows ==
    ASSUME LiveInv, NEW i \in Ids, log' = Append(log, i)
    PROVE  Durable \subseteq Durable'
BY DEF Durable, Event, LiveInv

LEMMA LiveKeeps == LiveInv /\ LiveNext => LiveInv'
<1> SUFFICES ASSUME LiveInv, LiveNext
             PROVE  LiveInv'
  OBVIOUS
<1>1. CASE AcceptEvent
  BY <1>1 DEF AcceptEvent, LiveInv, Ids, HistoryHeld, TailHeld, Durable
<1>2. CASE Commit
  <2>1. PICK i \in Ids : log' = Append(log, i)
    BY <1>2 DEF Commit
  <2>2. Durable \subseteq Durable'
    BY <2>1, DurableGrows
  <2>3. UNCHANGED <<rows, ckpt, hist, tail>> /\ spec' = NoSlice
    BY <1>2 DEF Commit
  <2>4. log' \in Seq(Ids)
    BY <2>1 DEF LiveInv
  <2>5. hist # NoSlice => HistoryHeld(hist)'
    BY <2>2, <2>3 DEF LiveInv, HistoryHeld, Offsets
  <2>6. tail # NoSlice => TailHeld(tail)'
    BY <2>2, <2>3 DEF LiveInv, TailHeld, Offsets
  <2> QED
    BY <2>3, <2>4, <2>5, <2>6 DEF LiveInv
<1>3. CASE Persist
  BY <1>3 DEF Persist, LiveInv, HistoryHeld, TailHeld, Durable
<1>4. CASE SaveCheckpoint
  BY <1>4 DEF SaveCheckpoint, LiveInv, HistoryHeld, TailHeld, Durable
<1>5. CASE ReadHistory
  <2>1. HistoryHeld(hist')
    BY <1>5, HistoryRead DEF ReadHistory
  <2>2. UNCHANGED <<log, spec, rows, ckpt, tail>>
    BY <1>5 DEF ReadHistory
  <2>3. HistoryHeld(hist)'
    BY <2>1, <2>2 DEF HistoryHeld, Durable
  <2> QED
    BY <2>2, <2>3 DEF LiveInv, TailHeld, Durable
<1>6. CASE ReadTail
  <2>1. TailHeld(tail')
    BY <1>6, TailRead DEF ReadTail
  <2>2. UNCHANGED <<log, spec, rows, ckpt, hist>>
    BY <1>6 DEF ReadTail
  <2>3. TailHeld(tail)'
    BY <2>1, <2>2 DEF TailHeld, Durable
  <2> QED
    BY <2>2, <2>3 DEF LiveInv, HistoryHeld, Durable
<1> QED
  BY <1>1, <1>2, <1>3, <1>4, <1>5, <1>6 DEF LiveNext

LEMMA LiveFrame == LiveInv /\ UNCHANGED liveVars => LiveInv'
BY DEF LiveInv, liveVars, HistoryHeld, TailHeld, Durable

-----------------------------------------------------------------------------
(* What a tradable stitched slice is. *)

\* A tradable slice passed every validator: its overlap is the history's, its
\* events are contiguous and nothing is missing before the tail.
LEMMA TradablePassed ==
    ASSUME NEW h, NEW t, NEW p, h.gap_free \in BOOLEAN,
           Stitch(h, t, p) # NoSlice, Stitch(h, t, p).tradable
    PROVE  /\ Stitch(h, t, p).events = MergeEvents(h, t)
           /\ Contiguous(MergeEvents(h, t))
           /\ Overlap(h, t) \subseteq h.events
           /\ ~HasGap(h, t)
           /\ t # NoSlice => (t.speculative => p.allow_speculative)
<1> DEFINE s == Stitch(h, t, p)
<1>1. /\ s.events = MergeEvents(h, t)
      /\ StitchReason(h, t, p) = NoSlice
      /\ IsGapFree(h, t)
      /\ Contiguous(MergeEvents(h, t))
      /\ ~InvalidOverlap(h, t)
  BY DEF Stitch
<1>2. ~HasGap(h, t)
  BY <1>1 DEF IsGapFree
<1>3. ASSUME t # NoSlice, t.speculative
      PROVE  p.allow_speculative
  <2>1. h.gap_free
    BY <1>1 DEF IsGapFree
  <2>2. StitchReason(h, t, p) =
          IF t.stale THEN "STALE_LIVE_STATE"
          ELSE IF t.speculative /\ ~p.allow_speculative THEN "SPECULATIVE_NOT_ALLOWED"
          ELSE IF ~IsTradableForPolicy(t, p) THEN "INCOMPLETE_HISTORY"
          ELSE NoSlice
    BY <1>2, <1>3, <2>1 DEF StitchReason
  <2>3. NoSlice # "STALE_LIVE_STATE" /\ NoSlice # "SPECULATIVE_NOT_ALLOWED"
    BY NoSliceAssumption
  <2> QED
    BY <1>1, <1>3, <2>2, <2>3
<1> QED
  BY <1>1, <1>2, <1>3 DEF InvalidOverlap

LEMMA TailTaken ==
    ASSUME NEW h, NEW t, t # NoSlice, Overlap(h, t) \subseteq h.events
    PROVE  t.events \subseteq MergeEvents(h, t)
BY DEF MergeEvents, HasTail

LEMMA MergedFrom ==
    ASSUME NEW h, NEW t, NEW e \in MergeEvents(h, t)
    PROVE  e \in h.events \/ (t # NoSlice /\ e \in t.events)
BY DEF MergeEvents, HasTail

\* Nothing is lost between what the DB holds and the first event.
LEMMA Attached ==
    ASSUME LiveInv, NEW h, NEW t, HistoryHeld(h), t # NoSlice => TailHeld(t),
           ~HasGap(h, t), Overlap(h, t) \subseteq h.events, MergeEvents(h, t) # {}
    PROVE  Lowest(Offsets(MergeEvents(h, t))) <= h.persisted + 1
<1> DEFINE events == MergeEvents(h, t)
<1>1. Offsets(events) \in SUBSET Nat /\ Offsets(events) # {}
  <2>1. \A e \in h.events : e.offset \in Nat
    BY DurableOffsets DEF HistoryHeld, LiveInv
  <2>2. \A e \in events : e.offset \in Nat
    BY <2>1, MergedFrom DEF TailHeld
  <2> QED
    BY <2>2 DEF Offsets
<1>2. /\ Lowest(Offsets(events)) \in Offsets(events)
      /\ \A y \in Offsets(events) : Lowest(Offsets(events)) <= y
  <2> HIDE DEF events
  <2> QED
    BY <1>1, LowestIs
<1> DEFINE low == Lowest(Offsets(events))
<1>3. low \in Nat /\ \A e \in events : e.offset \in Nat /\ low <= e.offset
  BY <1>1, <1>2 DEF Offsets
<1> SUFFICES low <= h.persisted + 1
  OBVIOUS
<1>4. CASE h.events # {}
  <2>1. PICK e \in h.events : e.offset <= h.to
    BY <1>4 DEF HistoryHeld
  <2>2. e \in events
    BY DEF MergeEvents
  <2>3. h.to = h.persisted
    BY <1>4 DEF HistoryHeld
  <2>4. h.persisted \in Nat
    BY DEF HistoryHeld
  <2> HIDE DEF events, low
  <2> QED
    BY <1>3, <2>1, <2>2, <2>3, <2>4
<1>5. CASE h.events = {}
  <2>1. t # NoSlice /\ t.events # {} /\ TailHeld(t)
    BY <1>5, MergedFrom
  <2>2. Overlap(h, t) = {}
    BY <1>5
  <2>3. t.events \subseteq events
    BY <2>1, <2>2, TailTaken
  <2>4. PICK e \in t.events : e.offset = t.from
    BY <2>1 DEF TailHeld, Offsets
  <2>5. ~(t.from > h.persisted + 1)
    BY <1>5, <2>1 DEF HasGap, HasTail, ContinuityBoundary
  <2>6. e \in events /\ e.offset \in Nat
    BY <2>1, <2>3, <2>4 DEF TailHeld
  <2>7. h.persisted \in Nat
    BY DEF HistoryHeld
  <2> HIDE DEF events, low
  <2> QED
    BY <1>3, <2>4, <2>5, <2>6, <2>7
<1> QED
  BY <1>4, <1>5

LEMMA ViewsSound == LiveInv => TradableViewsAreTheStream
<1> SUFFICES ASSUME LiveInv, hist # NoSlice, NEW p \in StitchPolicies,
                    NEW t \in {NoSlice, tail},
                    Stitch(hist, t, p) # NoSlice, Stitch(hist, t, p).tradable
             PROVE  LET s == Stitch(hist, t, p)
                    IN  /\ Contiguous(s.events)
                        /\ hist.events \subseteq s.events
                        /\ t # NoSlice => t.events \subseteq s.events
                        /\ s.events # {} => Lowest(Offsets(s.events)) <= hist.persisted + 1
                        /\ \A e \in s.events \ Durable :
                              /\ p.allow_speculative
                              /\ IF t = NoSlice THEN FALSE
                                 ELSE t.speculative /\ e.offset >= t.durable
  BY DEF TradableViewsAreTheStream, TradableSliceIsTheStream
<1> DEFINE events == MergeEvents(hist, t)
<1>1. HistoryHeld(hist) /\ (t # NoSlice => TailHeld(t))
  BY DEF LiveInv
<1>2. /\ Stitch(hist, t, p).events = events
      /\ Contiguous(events)
      /\ Overlap(hist, t) \subseteq hist.events
      /\ ~HasGap(hist, t)
      /\ t # NoSlice => (t.speculative => p.allow_speculative)
  BY <1>1, TradablePassed DEF HistoryHeld
<1>3. hist.events \subseteq events
  BY DEF MergeEvents
<1>4. t # NoSlice => t.events \subseteq events
  BY <1>2, TailTaken
<1>5. events # {} => Lowest(Offsets(events)) <= hist.persisted + 1
  BY <1>1, <1>2, Attached
<1>6. ASSUME NEW e \in events \ Durable
      PROVE  p.allow_speculative /\ t # NoSlice /\ t.speculative /\ e.offset >= t.durable
  <2>1. e \notin hist.events
    BY <1>1 DEF HistoryHeld
  <2>2. t # NoSlice /\ e \in t.events
    BY <2>1, MergedFrom
  <2> QED
    BY <1>1, <1>2, <2>2 DEF TailHeld
<1> HIDE DEF events
<1> QED
  BY <1>2, <1>3, <1>4, <1>5, <1>6

-----------------------------------------------------------------------------
(* The inductive invariant of the venue's rules: an import still to be      *)
(* stored has each of its parts in a store or in the writes before it, and  *)
(* the snapshots of a scope have a latest one.                              *)

AllSnapshots == LooseSnapshots \cup UNION {Snapshots(q) : q \in ImportRequests}

Writes ==
    [store : {"records"}, item : {q.record : q \in ImportRequests}]
    \cup [store : {"venues", "rules"}, item : UNION {Snapshots(q) : q \in ImportRequests}]
    \cup [store : {"imports"}, item : {[id |-> q, request |-> q] : q \in ImportRequests}]

\* The write of an import at place i of w finds what it names stored, or
\* written before it.
Justified(w, i, recs, snaps) ==
    w[i].store = "imports" =>
        /\ \/ w[i].item.request.record \in recs
           \/ \E j \in 1 .. i - 1 : w[j] = Put("records", w[i].item.request.record)
        /\ \A x \in Snapshots(w[i].item.request) :
            \/ x \in snaps
            \/ \E j \in 1 .. i - 1 : w[j] \in {Put("venues", x), Put("rules", x)}

JobsJustified ==
    \A c \in Callers : \A i \in DOMAIN jobs[c] :
        Justified(jobs[c], i, records, venues \cup rules)

HasLatest(S) == \E x \in S : \A y \in S : CapturedLater(x, y)

VenuesOK(V) ==
    /\ V \subseteq AllSnapshots
    /\ \A x \in V : HasLatest({y \in V : y.venue = x.venue})

RulesOK(R) ==
    /\ R \subseteq AllSnapshots
    /\ \A x \in R : HasLatest({y \in R : y.venue = x.venue /\ y.instrument = x.instrument})

Backed(x, recs) ==
    \E s \in recs : s.accepted /\ s.trust = "OFFICIAL" /\ ProvenanceMatches(x, s)

\* What ChecksRestOnStoredRules says of the stores that only grow.
UsedHeld(u, V, R, recs) ==
    u # Absent =>
        /\ u.venue \in V /\ u.rules \in R
        /\ u.rules.instrument = u.request.order.instrument
        /\ u.venue.venue = u.rules.venue
        /\ u.request.provenance => Backed(u.venue, recs) /\ Backed(u.rules, recs)

NoCollision(S) == \A x \in S : ~Collides(S, x)

Whole(m, recs, snaps) == m.request.record \in recs /\ Snapshots(m.request) \subseteq snaps

VenueInv ==
    /\ jobs \in [Callers -> Seq(Writes)]
    /\ JobsJustified
    /\ \A m \in imports : Whole(m, records, venues \cup rules)
    /\ NoCollision(records) /\ NoCollision(venues) /\ NoCollision(rules)
    /\ VenuesOK(venues) /\ RulesOK(rules)
    /\ UsedHeld(used, venues, rules, records)

-----------------------------------------------------------------------------
(* The latest snapshot, and stores that grow by one item. *)

LEMMA LatestIs ==
    ASSUME NEW S, HasLatest(S)
    PROVE  Latest(S) \in S /\ \A y \in S : CapturedLater(Latest(S), y)
BY DEF HasLatest, Latest

LEMMA SnapshotTyped ==
    ASSUME NEW x \in AllSnapshots
    PROVE  x.id \in Int /\ x.captured \in Int
BY SnapshotsAssumption DEF AllSnapshots

LEMMA LaterTotal ==
    ASSUME NEW x \in AllSnapshots, NEW y \in AllSnapshots
    PROVE  /\ CapturedLater(x, x)
           /\ CapturedLater(x, y) \/ CapturedLater(y, x)
BY SnapshotTyped DEF CapturedLater

LEMMA LaterTransitive ==
    ASSUME NEW x \in AllSnapshots, NEW y \in AllSnapshots, NEW z \in AllSnapshots,
           CapturedLater(x, y), CapturedLater(y, z)
    PROVE  CapturedLater(x, z)
BY SnapshotTyped DEF CapturedLater

LEMMA LatestGrows ==
    ASSUME NEW S \in SUBSET AllSnapshots, NEW z \in AllSnapshots, S = {} \/ HasLatest(S)
    PROVE  HasLatest(S \cup {z})
<1>1. CASE S = {}
  BY <1>1, LaterTotal DEF HasLatest
<1>2. CASE S # {}
  <2>1. PICK x \in S : \A y \in S : CapturedLater(x, y)
    BY <1>2 DEF HasLatest
  <2>2. CASE CapturedLater(x, z)
    BY <2>1, <2>2 DEF HasLatest
  <2>3. CASE CapturedLater(z, x)
    <3>1. \A y \in S : CapturedLater(z, y)
      BY <2>1, <2>3, LaterTransitive
    <3> QED
      BY <3>1, LaterTotal DEF HasLatest
  <2> QED
    BY <2>2, <2>3, LaterTotal
<1> QED
  BY <1>1, <1>2

LEMMA VenuesGrow ==
    ASSUME NEW V, VenuesOK(V), NEW z \in AllSnapshots
    PROVE  VenuesOK(V \cup {z})
<1> DEFINE Of(W, x) == {y \in W : y.venue = x.venue}
<1>1. V \cup {z} \subseteq AllSnapshots
  BY DEF VenuesOK
<1>2. ASSUME NEW x \in V \cup {z}
      PROVE  HasLatest(Of(V \cup {z}, x))
  <2>1. Of(V, x) \in SUBSET AllSnapshots
    BY <1>1
  <2>2. Of(V, x) = {} \/ HasLatest(Of(V, x))
    <3>1. ASSUME NEW y \in Of(V, x)
          PROVE  HasLatest(Of(V, x))
      <4>1. y \in V /\ Of(V, y) = Of(V, x)
        OBVIOUS
      <4>2. HasLatest(Of(V, y))
        BY <4>1 DEF VenuesOK
      <4> QED
        BY <4>1, <4>2
    <3> QED
      BY <3>1
  <2>3. CASE z.venue = x.venue
    <3>1. Of(V \cup {z}, x) = Of(V, x) \cup {z}
      BY <2>3
    <3> HIDE DEF Of
    <3> QED
      BY <2>1, <2>2, <3>1, LatestGrows
  <2>4. CASE z.venue # x.venue
    <3>1. Of(V \cup {z}, x) = Of(V, x) /\ x \in Of(V, x)
      BY <2>4
    <3> HIDE DEF Of
    <3> QED
      BY <2>2, <3>1
  <2> QED
    BY <2>3, <2>4
<1> QED
  BY <1>1, <1>2 DEF VenuesOK

LEMMA RulesGrow ==
    ASSUME NEW R, RulesOK(R), NEW z \in AllSnapshots
    PROVE  RulesOK(R \cup {z})
<1> DEFINE Of(W, x) == {y \in W : y.venue = x.venue /\ y.instrument = x.instrument}
<1>1. R \cup {z} \subseteq AllSnapshots
  BY DEF RulesOK
<1>2. ASSUME NEW x \in R \cup {z}
      PROVE  HasLatest(Of(R \cup {z}, x))
  <2>1. Of(R, x) \in SUBSET AllSnapshots
    BY <1>1
  <2>2. Of(R, x) = {} \/ HasLatest(Of(R, x))
    <3>1. ASSUME NEW y \in Of(R, x)
          PROVE  HasLatest(Of(R, x))
      <4>1. y \in R /\ Of(R, y) = Of(R, x)
        OBVIOUS
      <4>2. HasLatest(Of(R, y))
        BY <4>1 DEF RulesOK
      <4> QED
        BY <4>1, <4>2
    <3> QED
      BY <3>1
  <2>3. CASE z.venue = x.venue /\ z.instrument = x.instrument
    <3>1. Of(R \cup {z}, x) = Of(R, x) \cup {z}
      BY <2>3
    <3> HIDE DEF Of
    <3> QED
      BY <2>1, <2>2, <3>1, LatestGrows
  <2>4. CASE ~(z.venue = x.venue /\ z.instrument = x.instrument)
    <3>1. Of(R \cup {z}, x) = Of(R, x) /\ x \in Of(R, x)
      BY <2>4
    <3> HIDE DEF Of
    <3> QED
      BY <2>2, <3>1
  <2> QED
    BY <2>3, <2>4
<1> QED
  BY <1>1, <1>2 DEF RulesOK

LEMMA CollisionFree ==
    ASSUME NEW S, NoCollision(S), NEW z, ~Collides(S, z)
    PROVE  NoCollision(S \cup {z})
BY DEF NoCollision, Collides, SameId

LEMMA UsedStays ==
    ASSUME NEW u, NEW V, NEW R, NEW recs, NEW W, NEW Q, NEW srcs,
           V \subseteq W, R \subseteq Q, recs \subseteq srcs, UsedHeld(u, V, R, recs)
    PROVE  UsedHeld(u, W, Q, srcs)
BY DEF UsedHeld, Backed

-----------------------------------------------------------------------------
(* The writes of an import. *)

LEMMA Concatenation ==
    ASSUME NEW S, NEW x \in Seq(S), NEW y \in Seq(S)
    PROVE  /\ Len(x) \in Nat /\ Len(y) \in Nat
           /\ x \o y \in Seq(S)
           /\ Len(x \o y) = Len(x) + Len(y)
           /\ \A i \in 1 .. Len(x) : (x \o y)[i] = x[i]
           /\ \A i \in 1 .. Len(y) : (x \o y)[Len(x) + i] = y[i]
OBVIOUS

LEMMA WritesJustified ==
    ASSUME NEW q \in ImportRequests, NEW recs, NEW snaps
    PROVE  /\ ImportWrites(q) \in Seq(Writes)
           /\ \A i \in DOMAIN ImportWrites(q) : Justified(ImportWrites(q), i, recs, snaps)
<1> DEFINE first == Put("records", q.record)
           a == <<first>>
           b == IF q.venue = Absent THEN <<>> ELSE <<Put("venues", q.venue)>>
           r == [i \in DOMAIN q.rules |-> Put("rules", q.rules[i])]
           last == Put("imports", [id |-> q, request |-> q])
           d == <<last>>
           w == a \o b \o r \o d
<1>1. first \in Writes /\ last \in Writes
  BY DEF Writes, Put
<1>2. /\ b \in Seq(Writes) /\ Len(b) \in {0, 1}
      /\ q.venue # Absent => Len(b) = 1 /\ b[1] = Put("venues", q.venue)
      /\ \A i \in 1 .. Len(b) : b[i].store = "venues"
  <2>1. CASE q.venue = Absent
    BY <2>1
  <2>2. CASE q.venue # Absent
    <3> DEFINE v == Put("venues", q.venue)
    <3>1. v \in Writes /\ v.store = "venues"
      BY <2>2 DEF Writes, Put, Snapshots
    <3> HIDE DEF v
    <3>2. b = <<v>>
      BY <2>2 DEF v
    <3> HIDE DEF b
    <3>3. Len(b) = 1 /\ b[1] = v /\ b \in Seq(Writes)
      BY <3>1, <3>2
    <3> QED
      BY <3>1, <3>3 DEF v
  <2> QED
    BY <2>1, <2>2
<1>3. DOMAIN q.rules = 1 .. Len(q.rules) /\ Len(q.rules) \in Nat
  BY SnapshotsAssumption
<1>4. /\ r \in Seq(Writes) /\ Len(r) = Len(q.rules)
      /\ \A i \in 1 .. Len(r) : r[i].store = "rules"
      /\ \A i \in DOMAIN q.rules : r[i] = Put("rules", q.rules[i])
  <2>1. \A i \in DOMAIN q.rules : r[i] = Put("rules", q.rules[i]) /\ r[i] \in Writes
    BY DEF Writes, Put, Snapshots
  <2>2. r \in [1 .. Len(q.rules) -> Writes]
    BY <1>3, <2>1
  <2>3. r \in Seq(Writes) /\ Len(r) = Len(q.rules)
    BY <1>3, <2>2
  <2>4. \A i \in DOMAIN q.rules : r[i].store = "rules"
    BY DEF Put
  <2> HIDE DEF r
  <2> QED
    BY <1>3, <2>1, <2>3, <2>4
<1>5. /\ first.store = "records"
      /\ last.store = "imports" /\ last.item.request = q
  BY DEF Put
<1>6. ImportWrites(q) = w
  BY DEF ImportWrites
<1>7. \A x \in Snapshots(q) : \/ q.venue # Absent /\ x = q.venue
                              \/ \E i \in 1 .. Len(q.rules) : x = q.rules[i]
  BY <1>3 DEF Snapshots
<1> HIDE DEF first, b, r, last
<1> DEFINE nb == Len(b)
           nr == Len(r)
<1>N. nb \in Nat /\ nr \in Nat
  BY <1>2, <1>4
<1>L. /\ nr = Len(q.rules)
      /\ q.venue # Absent => nb = 1 /\ b[1] = Put("venues", q.venue)
      /\ \A i \in 1 .. nb : b[i].store = "venues"
      /\ \A i \in 1 .. nr : r[i].store = "rules" /\ r[i] = Put("rules", q.rules[i])
  BY <1>2, <1>3, <1>4
<1>8. /\ w \in Seq(Writes) /\ Len(w) = 2 + nb + nr
      /\ w[1] = first
      /\ \A i \in 1 .. nb : w[1 + i] = b[i]
      /\ \A i \in 1 .. nr : w[1 + nb + i] = r[i]
      /\ w[2 + nb + nr] = last
  <2> DEFINE ab == a \o b
             abr == ab \o r
  <2>1. a \in Seq(Writes) /\ Len(a) = 1 /\ a[1] = first
    BY <1>1
  <2>2. d \in Seq(Writes) /\ Len(d) = 1 /\ d[1] = last
    BY <1>1
  <2> HIDE DEF a, d
  <2>3. /\ ab \in Seq(Writes) /\ Len(ab) = 1 + nb
        /\ \A i \in 1 .. 1 : ab[i] = a[i]
        /\ \A i \in 1 .. nb : ab[1 + i] = b[i]
    BY <1>2, <2>1, Concatenation
  <2> HIDE DEF ab
  <2>4. /\ abr \in Seq(Writes) /\ Len(abr) = (1 + nb) + nr
        /\ \A i \in 1 .. 1 + nb : abr[i] = ab[i]
        /\ \A i \in 1 .. nr : abr[1 + nb + i] = r[i]
    <3>0. ab \in Seq(Writes) /\ r \in Seq(Writes)
      BY <1>4, <2>3
    <3>1. /\ abr \in Seq(Writes) /\ Len(abr) = Len(ab) + Len(r)
          /\ \A i \in 1 .. Len(ab) : abr[i] = ab[i]
          /\ \A i \in 1 .. Len(r) : abr[Len(ab) + i] = r[i]
      BY <3>0, Concatenation
    <3> HIDE DEF abr
    <3>2. Len(ab) = 1 + nb /\ Len(r) = nr
      BY <2>3
    <3> QED
      BY <3>1, <3>2
  <2> HIDE DEF abr
  <2>5. w = abr \o d
    BY DEF abr, ab
  <2> HIDE DEF w
  <2>6. /\ w \in Seq(Writes) /\ Len(w) = ((1 + nb) + nr) + 1
        /\ \A i \in 1 .. (1 + nb) + nr : w[i] = abr[i]
        /\ \A i \in 1 .. 1 : w[((1 + nb) + nr) + i] = d[i]
    <3>0. abr \in Seq(Writes) /\ d \in Seq(Writes)
      BY <2>2, <2>4
    <3>1. /\ w \in Seq(Writes) /\ Len(w) = Len(abr) + Len(d)
          /\ \A i \in 1 .. Len(abr) : w[i] = abr[i]
          /\ \A i \in 1 .. Len(d) : w[Len(abr) + i] = d[i]
      BY <2>5, <3>0, Concatenation
    <3>2. Len(abr) = (1 + nb) + nr /\ Len(d) = 1
      BY <2>2, <2>4
    <3> QED
      BY <3>1, <3>2
  <2> HIDE DEF nb, nr
  <2>7. w[1] = first
    <3>1. 1 \in 1 .. 1 /\ 1 \in 1 .. 1 + nb /\ 1 \in 1 .. (1 + nb) + nr
      BY <1>N
    <3> QED
      BY <2>1, <2>3, <2>4, <2>6, <3>1
  <2>8. ASSUME NEW i \in 1 .. nb
        PROVE  w[1 + i] = b[i]
    <3>1. 1 + i \in 1 .. 1 + nb /\ 1 + i \in 1 .. (1 + nb) + nr
      BY <1>N
    <3> QED
      BY <2>3, <2>4, <2>6, <3>1
  <2>9. ASSUME NEW i \in 1 .. nr
        PROVE  w[1 + nb + i] = r[i]
    <3>1. 1 + nb + i \in 1 .. (1 + nb) + nr
      BY <1>N
    <3> QED
      BY <2>4, <2>6, <3>1
  <2>10. w[2 + nb + nr] = last
    <3>1. ((1 + nb) + nr) + 1 = 2 + nb + nr
      BY <1>N
    <3>2. w[((1 + nb) + nr) + 1] = d[1]
      BY <2>6
    <3> QED
      BY <2>2, <3>1, <3>2
  <2>11. Len(w) = 2 + nb + nr
    BY <1>N, <2>6
  <2> QED
    BY <2>6, <2>7, <2>8, <2>9, <2>10, <2>11
<1> HIDE DEF nb, nr
<1>9. \A i \in 1 .. Len(w) : w[i].store = "imports" => i = Len(w)
  <2> SUFFICES ASSUME NEW i \in 1 .. Len(w), i # Len(w)
               PROVE  w[i].store # "imports"
    OBVIOUS
  <2> HIDE DEF w
  <2>1. CASE i = 1
    BY <1>5, <1>8, <2>1
  <2>2. CASE i \in 2 .. 1 + nb
    <3>1. (i - 1) \in 1 .. nb /\ 1 + (i - 1) = i
      BY <1>N, <2>2
    <3> QED
      BY <1>N, <1>L, <1>8, <3>1
  <2>3. CASE i \in 2 + nb .. 1 + nb + nr
    <3>1. (i - 1 - nb) \in 1 .. nr /\ 1 + nb + (i - 1 - nb) = i
      BY <1>N, <2>3
    <3> QED
      BY <1>N, <1>L, <1>8, <3>1
  <2>4. Len(w) = 2 + nb + nr
    BY <1>8
  <2>5. i \in 1 .. 2 + nb + nr /\ i # 2 + nb + nr
    BY <2>4
  <2>6. i = 1 \/ i \in 2 .. 1 + nb \/ i \in 2 + nb .. 1 + nb + nr
    BY <1>N, <2>5
  <2> QED
    BY <2>1, <2>2, <2>3, <2>6
<1>10. \A x \in Snapshots(q) : \E j \in 1 .. Len(w) - 1 :
          w[j] \in {Put("venues", x), Put("rules", x)}
  <2> SUFFICES ASSUME NEW x \in Snapshots(q)
               PROVE  \E j \in 1 .. Len(w) - 1 : w[j] \in {Put("venues", x), Put("rules", x)}
    OBVIOUS
  <2> HIDE DEF w
  <2>1. CASE q.venue # Absent /\ x = q.venue
    <3>2. nb = 1 /\ b[1] = Put("venues", x)
      BY <1>L, <2>1
    <3>3. 1 \in 1 .. nb /\ 1 + 1 = 2
      BY <3>2
    <3>4. w[2] = b[1]
      BY <1>8, <3>3
    <3>5. Len(w) = 2 + nb + nr
      BY <1>8
    <3>6. 2 \in 1 .. Len(w) - 1
      BY <1>N, <3>2, <3>5
    <3>1. w[2] = Put("venues", x) /\ 2 \in 1 .. Len(w) - 1
      BY <3>2, <3>4, <3>6
    <3> QED
      BY <3>1
  <2>2. CASE \E i \in 1 .. Len(q.rules) : x = q.rules[i]
    <3>1. PICK i \in 1 .. Len(q.rules) : x = q.rules[i]
      BY <2>2
    <3>2. w[1 + nb + i] = Put("rules", x) /\ (1 + nb + i) \in 1 .. Len(w) - 1
      <4>1. i \in 1 .. nr
        BY <1>L
      <4>2. w[1 + nb + i] = r[i] /\ r[i] = Put("rules", x)
        BY <1>L, <1>8, <3>1, <4>1
      <4>3. Len(w) = 2 + nb + nr
        BY <1>8
      <4>4. 1 + nb + i \in 1 .. Len(w) - 1
        BY <1>N, <4>1, <4>3
      <4> QED
        BY <4>2, <4>4
    <3> QED
      BY <3>2
  <2> QED
    BY <1>7, <2>1, <2>2
<1>11. 1 \in 1 .. Len(w) - 1 /\ w[1] = Put("records", q.record)
  <2>1. first = Put("records", q.record)
    BY DEF first
  <2> HIDE DEF w
  <2> QED
    BY <1>N, <1>L, <1>8, <2>1
<1>12. ASSUME NEW i \in DOMAIN w
       PROVE  Justified(w, i, recs, snaps)
  <2> HIDE DEF w
  <2>1. DOMAIN w = 1 .. Len(w) /\ Len(w) \in Nat
    BY <1>8
  <2>2. SUFFICES ASSUME w[i].store = "imports"
                 PROVE  Justified(w, i, recs, snaps)
    BY DEF Justified
  <2>3. i = Len(w) /\ w[i] = last
    BY <1>N, <1>L, <1>8, <1>9, <2>1, <2>2
  <2>4. w[i].item.request = q
    BY <1>5, <2>3
  <2> QED
    BY <1>10, <1>11, <2>3, <2>4 DEF Justified
<1> QED
  BY <1>6, <1>8, <1>12

LEMMA JustifiedStays ==
    ASSUME NEW w, NEW i, NEW recs, NEW snaps, NEW srcs, NEW more,
           recs \subseteq srcs, snaps \subseteq more, Justified(w, i, recs, snaps)
    PROVE  Justified(w, i, srcs, more)
BY DEF Justified

\* Once the first write is made the rest is justified without it.
LEMMA TailJustified ==
    ASSUME NEW w \in Seq(Writes), w # <<>>, NEW recs, NEW snaps,
           \A i \in DOMAIN w : Justified(w, i, recs, snaps),
           Head(w).store = "records" => Head(w).item \in recs,
           Head(w).store \in {"venues", "rules"} => Head(w).item \in snaps
    PROVE  \A i \in DOMAIN Tail(w) : Justified(Tail(w), i, recs, snaps)
<1> DEFINE t == Tail(w)
<1>1. /\ Len(w) \in Nat \ {0} /\ DOMAIN w = 1 .. Len(w)
      /\ DOMAIN t = 1 .. Len(w) - 1
      /\ \A i \in 1 .. Len(w) - 1 : t[i] = w[i + 1]
      /\ Head(w) = w[1]
  OBVIOUS
<1> HIDE DEF t
<1> SUFFICES ASSUME NEW i \in DOMAIN t, t[i].store = "imports"
             PROVE  Justified(t, i, recs, snaps)
  BY DEF Justified, t
<1> DEFINE m == t[i].item
<1>2. t[i] = w[i + 1] /\ i + 1 \in DOMAIN w /\ i \in Nat
  BY <1>1
<1>3. /\ \/ m.request.record \in recs
         \/ \E j \in 1 .. i : w[j] = Put("records", m.request.record)
      /\ \A x \in Snapshots(m.request) :
          \/ x \in snaps
          \/ \E j \in 1 .. i : w[j] \in {Put("venues", x), Put("rules", x)}
  <2>1. Justified(w, i + 1, recs, snaps)
    BY <1>2
  <2>2. 1 .. (i + 1) - 1 = 1 .. i
    BY <1>2
  <2> QED
    BY <1>2, <2>1, <2>2 DEF Justified
<1>4. ASSUME NEW j \in 1 .. i
      PROVE  w[j] = Head(w) \/ \E k \in 1 .. i - 1 : t[k] = w[j]
  <2>1. CASE j = 1
    BY <1>1, <2>1
  <2>2. CASE j # 1
    <3>1. j - 1 \in 1 .. i - 1 /\ j - 1 \in 1 .. Len(w) - 1 /\ (j - 1) + 1 = j
      BY <1>1, <1>2, <2>2
    <3> QED
      BY <1>1, <3>1
  <2> QED
    BY <2>1, <2>2
<1>5. \/ m.request.record \in recs
      \/ \E j \in 1 .. i - 1 : t[j] = Put("records", m.request.record)
  <2>1. ASSUME Head(w) = Put("records", m.request.record)
        PROVE  m.request.record \in recs
    BY <2>1 DEF Put
  <2> QED
    BY <1>3, <1>4, <2>1
<1>6. ASSUME NEW x \in Snapshots(m.request)
      PROVE  \/ x \in snaps
             \/ \E j \in 1 .. i - 1 : t[j] \in {Put("venues", x), Put("rules", x)}
  <2>1. ASSUME Head(w) \in {Put("venues", x), Put("rules", x)}
        PROVE  x \in snaps
    BY <2>1 DEF Put
  <2> QED
    BY <1>3, <1>4, <2>1
<1> QED
  BY <1>5, <1>6 DEF Justified

-----------------------------------------------------------------------------
(* A resolution. *)

LEMMA ProvenanceBacked ==
    ASSUME NEW x, ProvenanceAccepted(x)
    PROVE  Backed(x, records)
BY DEF ProvenanceAccepted, Backed

\* The latest snapshots of the scopes of an order are stored and its own.
LEMMA LatestVenueIs ==
    ASSUME VenuesOK(venues), NEW v, LatestVenue(v) # Absent
    PROVE  LatestVenue(v) \in venues /\ LatestVenue(v).venue = v
<1> DEFINE S == {x \in venues : x.venue = v}
<1>1. PICK x \in S : TRUE
  BY DEF LatestVenue, Latest
<1>2. S = {y \in venues : y.venue = x.venue}
  OBVIOUS
<1>3. HasLatest(S)
  BY <1>2 DEF VenuesOK
<1>4. Latest(S) \in S
  <2> HIDE DEF S
  <2> QED
    BY <1>3, LatestIs
<1> QED
  BY <1>4 DEF LatestVenue

LEMMA LatestRulesIs ==
    ASSUME RulesOK(rules), NEW v, NEW i, LatestRules(v, i) # Absent
    PROVE  /\ LatestRules(v, i) \in rules
           /\ LatestRules(v, i).venue = v /\ LatestRules(v, i).instrument = i
<1> DEFINE S == {x \in rules : x.venue = v /\ x.instrument = i}
<1>1. PICK x \in S : TRUE
  BY DEF LatestRules, Latest
<1>2. S = {y \in rules : y.venue = x.venue /\ y.instrument = x.instrument}
  OBVIOUS
<1>3. HasLatest(S)
  BY <1>2 DEF RulesOK
<1>4. Latest(S) \in S
  <2> HIDE DEF S
  <2> QED
    BY <1>3, LatestIs
<1> QED
  BY <1>4 DEF LatestRules

-----------------------------------------------------------------------------
(* The invariant of the venue's rules. *)

LEMMA VenueStart == VenueInit => VenueInv
BY DEF VenueInit, VenueInv, JobsJustified, NoCollision, VenuesOK, RulesOK, UsedHeld

LEMMA KeepsStart ==
    ASSUME VenueInv, NEW c \in Callers, StartImport(c)
    PROVE  VenueInv'
<1>1. PICK q \in ImportRequests : jobs' = [jobs EXCEPT ![c] = ImportWrites(q)]
  BY DEF StartImport
<1>2. UNCHANGED <<records, venues, rules, imports, used>>
  BY DEF StartImport
<1> DEFINE w == ImportWrites(q)
<1>3. w \in Seq(Writes) /\ \A i \in DOMAIN w : Justified(w, i, records, venues \cup rules)
  BY WritesJustified
<1> HIDE DEF w
<1>4. jobs' = [jobs EXCEPT ![c] = w]
  BY <1>1 DEF w
<1>5. jobs' \in [Callers -> Seq(Writes)]
  BY <1>3, <1>4 DEF VenueInv
<1>6. JobsJustified'
  BY <1>2, <1>3, <1>4 DEF VenueInv, JobsJustified
<1> QED
  BY <1>2, <1>5, <1>6 DEF VenueInv

LEMMA JobGone ==
    ASSUME VenueInv, NEW c \in Callers, jobs' = [jobs EXCEPT ![c] = <<>>],
           UNCHANGED <<records, venues, rules>>
    PROVE  JobsJustified'
<1> SUFFICES ASSUME NEW d \in Callers, NEW i \in DOMAIN jobs'[d]
             PROVE  Justified(jobs'[d], i, records, venues \cup rules)
  BY DEF JobsJustified
<1>1. CASE d = c
  <2>1. jobs'[d] = <<>>
    BY <1>1 DEF VenueInv
  <2> QED
    BY <2>1
<1>2. CASE d # c
  BY <1>2 DEF VenueInv, JobsJustified
<1> QED
  BY <1>1, <1>2

LEMMA KeepsDeath ==
    ASSUME VenueInv, NEW c \in Callers, ImportDies(c)
    PROVE  VenueInv'
<1>1. jobs' = [jobs EXCEPT ![c] = <<>>] /\ UNCHANGED <<records, venues, rules, imports, used>>
  BY DEF ImportDies
<1>2. jobs' \in [Callers -> Seq(Writes)]
  BY <1>1 DEF VenueInv
<1>3. JobsJustified'
  BY <1>1, JobGone
<1> QED
  BY <1>1, <1>2, <1>3 DEF VenueInv

\* What one put does to the four stores, and to the import that made it.
LEMMA PutIs ==
    ASSUME VenueInv, NEW c \in Callers, ImportPut(c)
    PROVE  LET w == Head(jobs[c])
           IN  /\ w \in Writes
               /\ used' = used
               /\ \/ /\ UNCHANGED <<records, venues, rules, imports>>
                     /\ jobs' = [jobs EXCEPT ![c] = <<>>]
                  \/ /\ ~Collides(Store(w.store), w.item)
                     /\ jobs' = [jobs EXCEPT ![c] = Tail(jobs[c])]
                     /\ records' = IF w.store = "records" THEN records \cup {w.item} ELSE records
                     /\ venues' = IF w.store = "venues" THEN venues \cup {w.item} ELSE venues
                     /\ rules' = IF w.store = "rules" THEN rules \cup {w.item} ELSE rules
                     /\ imports' = IF w.store = "imports" THEN imports \cup {w.item} ELSE imports
<1> DEFINE w == Head(jobs[c])
<1>1. jobs[c] \in Seq(Writes) /\ jobs[c] # <<>> /\ DOMAIN jobs = Callers
  BY DEF ImportPut, VenueInv
<1>2. w \in Writes
  BY <1>1
<1>3. CASE Collides(Store(w.store), w.item)
  BY <1>1, <1>2, <1>3 DEF ImportPut, Store
<1>4. CASE ~Collides(Store(w.store), w.item)
  BY <1>1, <1>2, <1>4 DEF ImportPut, Store
<1> QED
  BY <1>2, <1>3, <1>4

LEMMA KeepsPut ==
    ASSUME VenueInv, NEW c \in Callers, ImportPut(c)
    PROVE  VenueInv'
<1> DEFINE w == Head(jobs[c])
<1>1. w \in Writes /\ used' = used
  BY PutIs
<1>2. jobs[c] \in Seq(Writes) /\ jobs[c] # <<>> /\ DOMAIN jobs = Callers
  BY DEF ImportPut, VenueInv
<1>3. CASE /\ UNCHANGED <<records, venues, rules, imports>>
           /\ jobs' = [jobs EXCEPT ![c] = <<>>]
  <2>1. jobs' \in [Callers -> Seq(Writes)]
    BY <1>3 DEF VenueInv
  <2>2. JobsJustified'
    BY <1>3, JobGone
  <2> QED
    BY <1>1, <1>3, <2>1, <2>2 DEF VenueInv
<1>4. CASE /\ ~Collides(Store(w.store), w.item)
           /\ jobs' = [jobs EXCEPT ![c] = Tail(jobs[c])]
           /\ records' = IF w.store = "records" THEN records \cup {w.item} ELSE records
           /\ venues' = IF w.store = "venues" THEN venues \cup {w.item} ELSE venues
           /\ rules' = IF w.store = "rules" THEN rules \cup {w.item} ELSE rules
           /\ imports' = IF w.store = "imports" THEN imports \cup {w.item} ELSE imports
  <2>1. /\ records \subseteq records' /\ venues \subseteq venues' /\ rules \subseteq rules'
        /\ venues \cup rules \subseteq venues' \cup rules'
    BY <1>4
  <2>2. /\ w.store = "records" => w.item \in records'
        /\ w.store \in {"venues", "rules"} => w.item \in venues' \cup rules'
    BY <1>4
  <2>3. w.store \in {"venues", "rules"} => w.item \in AllSnapshots
    BY <1>1 DEF Writes, AllSnapshots
  <2>4. jobs' \in [Callers -> Seq(Writes)]
    BY <1>2, <1>4 DEF VenueInv
  <2>5. \A d \in Callers : \A i \in DOMAIN jobs[d] :
            Justified(jobs[d], i, records', venues' \cup rules')
    BY <2>1, JustifiedStays DEF VenueInv, JobsJustified
  <2>6. \A i \in DOMAIN Tail(jobs[c]) :
            Justified(Tail(jobs[c]), i, records', venues' \cup rules')
    BY <1>2, <2>2, <2>5, TailJustified
  <2>7. JobsJustified'
    <3> SUFFICES ASSUME NEW d \in Callers, NEW i \in DOMAIN jobs'[d]
                 PROVE  Justified(jobs'[d], i, records', venues' \cup rules')
      BY DEF JobsJustified
    <3>1. CASE d = c
      BY <1>2, <1>4, <2>6, <3>1
    <3>2. CASE d # c
      BY <1>2, <1>4, <2>5, <3>2
    <3> QED
      BY <3>1, <3>2
  <2>8. \A m \in imports' : Whole(m, records', venues' \cup rules')
    <3> SUFFICES ASSUME NEW m \in imports'
                 PROVE  Whole(m, records', venues' \cup rules')
      OBVIOUS
    <3>1. CASE m \in imports
      BY <2>1, <3>1 DEF VenueInv, Whole
    <3>2. CASE w.store = "imports" /\ m = w.item
      <4>1. 1 \in DOMAIN jobs[c] /\ w = jobs[c][1] /\ 1 .. 1 - 1 = {}
        BY <1>2
      <4>2. Justified(jobs[c], 1, records', venues' \cup rules')
        BY <2>5, <4>1
      <4> QED
        BY <3>2, <4>1, <4>2 DEF Justified, Whole
    <3> QED
      BY <1>4, <3>1, <3>2
  <2>9. NoCollision(records') /\ NoCollision(venues') /\ NoCollision(rules')
    BY <1>4, CollisionFree DEF VenueInv, Store
  <2>10. VenuesOK(venues') /\ RulesOK(rules')
    BY <1>4, <2>3, VenuesGrow, RulesGrow DEF VenueInv
  <2>11. UsedHeld(used', venues', rules', records')
    BY <1>1, <2>1, UsedStays DEF VenueInv
  <2> QED
    BY <2>4, <2>7, <2>8, <2>9, <2>10, <2>11 DEF VenueInv
<1> QED
  BY <1>3, <1>4, PutIs

LEMMA KeepsLoose ==
    ASSUME VenueInv, PutLoose
    PROVE  VenueInv'
<1>1. PICK x \in LooseSnapshots :
        \/ ~Collides(venues, x) /\ venues' = venues \cup {x} /\ rules' = rules
        \/ ~Collides(rules, x) /\ rules' = rules \cup {x} /\ venues' = venues
  BY DEF PutLoose
<1>2. UNCHANGED <<records, imports, jobs, used>>
  BY DEF PutLoose
<1>3. x \in AllSnapshots
  BY DEF AllSnapshots
<1>4. /\ venues \subseteq venues' /\ rules \subseteq rules'
      /\ venues \cup rules \subseteq venues' \cup rules'
  BY <1>1
<1>5. JobsJustified'
  BY <1>2, <1>4, JustifiedStays DEF VenueInv, JobsJustified
<1>6. \A m \in imports' : Whole(m, records', venues' \cup rules')
  BY <1>2, <1>4 DEF VenueInv, Whole
<1>7. NoCollision(venues') /\ NoCollision(rules')
  BY <1>1, CollisionFree DEF VenueInv
<1>8. VenuesOK(venues') /\ RulesOK(rules')
  BY <1>1, <1>3, VenuesGrow, RulesGrow DEF VenueInv
<1>9. UsedHeld(used', venues', rules', records')
  BY <1>2, <1>4, UsedStays DEF VenueInv
<1> QED
  BY <1>2, <1>5, <1>6, <1>7, <1>8, <1>9 DEF VenueInv

LEMMA KeepsResolution ==
    ASSUME VenueInv, ResolveOrder
    PROVE  VenueInv'
<1>1. PICK q \in Resolutions :
        /\ Passes(q)
        /\ used' = [request |-> q, venue |-> LatestVenue(q.order.venue),
                    rules |-> LatestRules(q.order.venue, q.order.instrument)]
  BY DEF ResolveOrder
<1>2. UNCHANGED <<records, venues, rules, imports, jobs>>
  BY DEF ResolveOrder
<1> DEFINE v == LatestVenue(q.order.venue)
           r == LatestRules(q.order.venue, q.order.instrument)
<1>3. /\ v # Absent /\ r # Absent
      /\ q.provenance => ProvenanceAccepted(v) /\ ProvenanceAccepted(r)
  BY <1>1 DEF Passes, Ready
<1>4. v \in venues /\ v.venue = q.order.venue
  BY <1>3, LatestVenueIs DEF VenueInv
<1>5. r \in rules /\ r.venue = q.order.venue /\ r.instrument = q.order.instrument
  BY <1>3, LatestRulesIs DEF VenueInv
<1>6. q.provenance => Backed(v, records) /\ Backed(r, records)
  BY <1>3, ProvenanceBacked
<1>7. used'.request = q /\ used'.venue = v /\ used'.rules = r
  BY <1>1
<1> HIDE DEF v, r
<1>8. UsedHeld(used', venues', rules', records')
  BY <1>2, <1>4, <1>5, <1>6, <1>7 DEF UsedHeld
<1> QED
  BY <1>2, <1>8 DEF VenueInv, JobsJustified

LEMMA VenueKeeps == VenueInv /\ VenueNext => VenueInv'
BY KeepsStart, KeepsPut, KeepsDeath, KeepsLoose, KeepsResolution DEF VenueNext

LEMMA VenueFrame == VenueInv /\ UNCHANGED venueVars => VenueInv'
BY DEF VenueInv, venueVars, JobsJustified

LEMMA CapabilitiesSound == VenueInv => CapabilitiesHold
<1> SUFFICES ASSUME VenueInv
             PROVE  CapabilitiesHold
  OBVIOUS
<1>1. ImportsAreWhole
  BY DEF VenueInv, ImportsAreWhole, Whole, NoCollision
<1>2. ASSUME used # Absent
      PROVE  /\ CapturedLater(LatestVenue(used.venue.venue), used.venue)
             /\ CapturedLater(LatestRules(used.rules.venue, used.rules.instrument), used.rules)
  <2> DEFINE V == {y \in venues : y.venue = used.venue.venue}
             R == {y \in rules : y.venue = used.rules.venue
                                 /\ y.instrument = used.rules.instrument}
  <2>1. used.venue \in V /\ used.rules \in R
    BY <1>2 DEF VenueInv, UsedHeld
  <2>2. HasLatest(V) /\ HasLatest(R)
    BY <2>1 DEF VenueInv, VenuesOK, RulesOK
  <2>3. LatestVenue(used.venue.venue) = Latest(V)
    BY DEF LatestVenue
  <2>4. LatestRules(used.rules.venue, used.rules.instrument) = Latest(R)
    BY DEF LatestRules
  <2> HIDE DEF V, R
  <2> QED
    BY <2>1, <2>2, <2>3, <2>4, LatestIs
<1>3. ChecksRestOnStoredRules
  BY <1>2 DEF VenueInv, UsedHeld, ChecksRestOnStoredRules, Backed
<1> QED
  BY <1>1, <1>3 DEF CapabilitiesHold

-----------------------------------------------------------------------------
(* The theorems. *)

GateInv == LiveInv /\ ControlInv /\ VenueInv

\* Every step of the stream, of the control plane and of the imports keeps
\* the invariants of all three.
THEOREM GateInductive == GateSpec => []GateInv
<1>1. GateInit => GateInv
  BY LiveStart, ControlStart, VenueStart DEF GateInit, GateInv
<1>2. GateInv /\ [GateNext]_gateVars => GateInv'
  <2> SUFFICES ASSUME GateInv, [GateNext]_gateVars
               PROVE  GateInv'
    OBVIOUS
  <2>1. CASE LiveNext /\ UNCHANGED <<controlVars, venueVars>>
    BY <2>1, LiveKeeps, ControlFrame, VenueFrame DEF GateInv
  <2>2. CASE ControlStep /\ UNCHANGED <<liveVars, venueVars>>
    BY <2>2, LiveFrame, ControlKeeps, VenueFrame DEF GateInv
  <2>3. CASE VenueNext /\ UNCHANGED <<liveVars, controlVars>>
    BY <2>3, LiveFrame, ControlFrame, VenueKeeps DEF GateInv
  <2>4. CASE UNCHANGED gateVars
    BY <2>4, LiveFrame, ControlFrame, VenueFrame DEF GateInv, gateVars
  <2> QED
    BY <2>1, <2>2, <2>3, <2>4 DEF GateNext
<1> QED
  BY <1>1, <1>2, PTL DEF GateSpec

\* A stitched slice that is marked tradable is the stream, whenever its
\* history and its tail were read (DeterministicStateStitcher.stitch).
THEOREM TradableViews == GateSpec => []TradableViewsAreTheStream
<1>1. GateInv => TradableViewsAreTheStream
  BY ViewsSound DEF GateInv
<1> QED
  BY <1>1, GateInductive, PTL

\* The permission for order flow is sound for every exposure, policy and data
\* health (evaluate_order_flow_permission, runtime_transition_allowed).
THEOREM PermissionSoundness == GateSpec => []PermissionIsSound
<1>1. GateInv => PermissionIsSound
  BY PermissionSound DEF GateInv
<1> QED
  BY <1>1, GateInductive, PTL

\* Stored imports are whole and orders were checked against the rules in
\* store, of accepted provenance, none of which a later resolution goes back
\* behind, whatever imports died or ran at once (import_capabilities, resolve).
THEOREM Capabilities == GateSpec => []CapabilitiesHold
<1>1. GateInv => CapabilitiesHold
  BY CapabilitiesSound DEF GateInv
<1> QED
  BY <1>1, GateInductive, PTL
=============================================================================
